---- MODULE Spec2Model ----
(***************************************************************************)
(* Separate-chaining hashtable in a caller-supplied buffer                 *)
(* (hashtable.c / hashtable_api.h, library version v0.1.0).                *)
(*                                                                         *)
(* A record (_keyval_pair_t) lives at an offset of data_block->data; NULL   *)
(* is -1.  `pairs` maps the offset of every record carved so far to its    *)
(* fields: next, key_size, value_size and data, the key_size + value_size  *)
(* bytes of data[] that the record's sizes cover (key bytes, then value    *)
(* bytes).  Bytes of the buffer that no record covers are not represented: *)
(* when a record comes to cover bytes that the code does not write, their  *)
(* content is the `prior` argument, chosen over all byte strings.          *)
(***************************************************************************)
EXTENDS Integers, Sequences, FiniteSets, TLC

NULL == -1

(* ---- sizes of the structures of hashtable_api.h (LP64, unpacked) ------ *)
SizeofKeyvalPair == 24
SizeofKeyvalPairList == 16
SizeofListTable == 8
SizeofDataBlock == 32
SizeofTableData == 40

HASHTABLE_MIN_BUFFER_SIZE(n) ==
    SizeofTableData + SizeofListTable + (n * SizeofKeyvalPairList) + SizeofDataBlock

(* ---- bounds of the model ---------------------------------------------- *)
NumBuckets == 2
ArenaBytes == 51
NumKeys == 2
NumValues == 1
MaxSizeOffset == 31
MaxHashLen == 3
NumListKeys == 3
ListArenaBytes == 76

KeyPool == << <<97>>, <<98>>, <<97, 98>>, <<98, 97>>, <<97, 97>> >>
ValuePool == << <<120>>, <<121>>, <<121, 120>>, <<120, 120>>, <<120, 121>> >>

Min(a, b) == IF a < b THEN a ELSE b

Keys == { KeyPool[i] : i \in 1..Min(NumKeys, Len(KeyPool)) }
Values == { ValuePool[i] : i \in 1..Min(NumValues, Len(ValuePool)) }
ListKeys == { KeyPool[i] : i \in 1..Min(NumListKeys, Len(KeyPool)) }

(* a pointer-to-bytes argument: a null pointer, or the bytes it points to *)
NullBuf == [null |-> TRUE, bytes |-> <<>>]
Buf(b) == [null |-> FALSE, bytes |-> b]

HashFns == {"fnv1a", "zero"}
AnyByte == {0, 97, 98, 120, 121}

(* ---- 32-bit arithmetic on (hi16, lo16) pairs -------------------------- *)
RECURSIVE BitXor(_, _, _)
BitXor(a, b, n) ==
    IF n = 0 THEN 0
    ELSE (((a % 2) + (b % 2)) % 2) + 2 * BitXor(a \div 2, b \div 2, n - 1)

(* (uint32_t) data[i]: char is signed on the modelled build, so a byte    *)
(* >= 0x80 is sign-extended                                               *)
CharToUint32(b) ==
    IF b >= 128 THEN [hi |-> 65535, lo |-> 65280 + b] ELSE [hi |-> 0, lo |-> b]

Xor32(x, y) == [hi |-> BitXor(x.hi, y.hi, 16), lo |-> BitXor(x.lo, y.lo, 16)]

(* x * 0x01000193 mod 2^32 *)
MulFnvPrime(x) ==
    LET lowprod == x.lo * 403
    IN  [hi |-> (x.hi * 403 + x.lo * 256 + (lowprod \div 65536)) % 65536,
         lo |-> lowprod % 65536]

RECURSIVE FnvLoop(_, _, _, _)
FnvLoop(hash, bytes, i, size) ==
    IF i > size THEN hash
    ELSE FnvLoop(MulFnvPrime(Xor32(hash, CharToUint32(bytes[i]))), bytes, i + 1, size)

_fnv1a_hash(bytes, size) == FnvLoop([hi |-> 33052, lo |-> 40389], bytes, 1, size)

Mod32(x, n) == (((x.hi % n) * (65536 % n)) + (x.lo % n)) % n

(* _fnv1a_hash of each key the clients use, computed once *)
Fnv1aOfKeys == [k \in Keys \cup ListKeys |-> _fnv1a_hash(k, Len(k))]

(* table->config.hash(key, key_size) *)
CallHash(h, bytes, size) ==
    IF h = "fnv1a"
    THEN IF bytes \in DOMAIN Fnv1aOfKeys /\ size = Len(bytes)
         THEN Fnv1aOfKeys[bytes]
         ELSE _fnv1a_hash(bytes, size)
    ELSE [hi |-> 0, lo |-> 0]

VARIABLES
    config_hash,            \* table->config.hash
    array_count,            \* td->list_table->array_count
    entry_count,            \* table->entry_count
    array_slots_used,       \* table->array_slots_used
    table,                  \* td->list_table->table[]: [head, tail] per slot
    freelist,               \* td->data_block->freelist
    total_bytes,            \* td->data_block->total_bytes
    bytes_used,             \* td->data_block->bytes_used
    pairs,                  \* records by offset: [next, key_size, value_size, data]
    cursor_array_index,     \* td->cursor_array_index
    cursor_items_traversed, \* td->cursor_items_traversed
    cursor_item,            \* td->cursor_item
    cursor_limit,           \* td->cursor_limit
    error_msg,              \* _error_msg
    op,                     \* the public function called last
    ret,                    \* its return value
    out,                    \* the caller's output variables after the call
    path,                   \* how the last insert obtained its record
    call,                   \* the key and value arguments of the last call
    emitted,                \* <<key, value>> pairs emitted since the last reset
    clean,                  \* no insert or remove call since the last reset
    phase,                  \* what the client is doing: updating, traversing, ...
    script,                 \* the records S of a remove-then-reinsert run
    snapshot,               \* a number the client noted: bytes remaining, entries
    removed_in_order,       \* S was removed in its insertion order so far
    step                    \* number of records of S reinserted so far

heapvars == <<entry_count, array_slots_used, table, freelist, bytes_used, pairs>>
cursorvars == <<cursor_array_index, cursor_items_traversed, cursor_item, cursor_limit>>
configvars == <<config_hash, array_count, total_bytes>>
scriptvars == <<phase, script, snapshot, removed_in_order, step>>
vars == <<config_hash, array_count, entry_count, array_slots_used, table, freelist,
          total_bytes, bytes_used, pairs, cursor_array_index,
          cursor_items_traversed, cursor_item, cursor_limit, error_msg, op, ret, out,
          path, call, emitted, clean,
          phase, script, snapshot, removed_in_order, step>>

UNTOUCHED == -2

(* the part of the buffer the internal functions read and write *)
Heap ==
    [table |-> table, freelist |-> freelist, pairs |-> pairs,
     bytes_used |-> bytes_used, entry_count |-> entry_count,
     array_slots_used |-> array_slots_used]

(* pair->data: the key bytes start right after the record header *)
PairData(pair) == pair + SizeofKeyvalPair

(* memcpy(d + dest, src, n), d being the bytes of a record's data[] *)
memcpy(d, dest, src, n) ==
    [i \in 1..Len(d) |-> IF i > dest /\ i <= dest + n THEN src[i - dest] ELSE d[i]]

(* 0 == memcmp(bytes, d, n) *)
memcmp0(bytes, d, n) == \A i \in 1..n : bytes[i] = d[i]

(* the n bytes a returned pointer refers to, P being the records *)
Deref(P, ptr, n) ==
    LET r == CHOOSE a \in DOMAIN P :
                 /\ PairData(a) <= ptr
                 /\ \A b \in DOMAIN P : PairData(b) <= ptr => b <= a
    IN  SubSeq(P[r].data, ptr - PairData(r) + 1, ptr - PairData(r) + n)

(* a lookup that sends every key to the first slot of the array *)
_get_table_list_by_key_first_slot(key, key_size) ==
    Mod32(CallHash(config_hash, key, key_size), 1)

_get_table_list_by_key(key, key_size) ==
    Mod32(CallHash(config_hash, key, key_size), array_count)

(* a comparison that rejects a free record of exactly the required size *)
Fits_strict(size_available, size_required) == size_available > size_required

(* a comparison that accepts every free record, whatever its size *)
Fits_any(size_available, size_required) == size_available >= 0

(* size_available >= size_required *)
Fits(size_available, size_required) == size_available >= size_required

RECURSIVE FreeListLoop(_, _, _, _)
FreeListLoop(H, curr, prev, size_required) ==
    IF curr = NULL THEN [heap |-> H, ret |-> NULL]
    ELSE LET size_available ==
                 SizeofKeyvalPair + H.pairs[curr].key_size + H.pairs[curr].value_size
         IN  IF Fits(size_available, size_required)
             THEN LET nxt == H.pairs[curr].next
                      fl1 == IF curr = H.freelist.head
                             THEN [H.freelist EXCEPT !.head = nxt] ELSE H.freelist
                      fl2 == IF curr = fl1.tail THEN [fl1 EXCEPT !.tail = prev] ELSE fl1
                      p1 == IF prev # NULL
                            THEN [H.pairs EXCEPT ![prev].next = nxt] ELSE H.pairs
                      p2 == [p1 EXCEPT ![curr].next = NULL]
                  IN  [heap |-> [H EXCEPT !.freelist = fl2, !.pairs = p2], ret |-> curr]
             ELSE FreeListLoop(H, H.pairs[curr].next, curr, size_required)

(* a search that asks the free list for one byte more than required *)
_search_free_list_one_more(H, size_required) ==
    FreeListLoop(H, H.freelist.head, NULL, size_required + 1)

_search_free_list(H, size_required) ==
    FreeListLoop(H, H.freelist.head, NULL, size_required)

(* a store that adds to bytes_used before it checks the space remaining *)
StoreInto_bump_first(H, found, key, key_size, value, value_size, prior) ==
    LET size_required == SizeofKeyvalPair + key_size + value_size
        size_remaining == total_bytes - H.bytes_used
    IN  IF found.ret = NULL /\ size_required > size_remaining
        THEN [heap |-> [H EXCEPT !.bytes_used = @ + size_required],
              ret |-> NULL, src |-> "none"]
        ELSE LET r == IF found.ret = NULL THEN H.bytes_used ELSE found.ret
                 H1 == IF found.ret = NULL
                       THEN [H EXCEPT !.bytes_used = @ + size_required]
                       ELSE found.heap
                 d1 == memcpy(prior, 0, key, key_size)
                 d2 == IF 0 < value_size /\ ~value.null
                       THEN memcpy(d1, key_size, value.bytes, value_size)
                       ELSE d1
                 new == [next |-> NULL, key_size |-> key_size,
                         value_size |-> value_size, data |-> d2]
             IN  [heap |-> [H1 EXCEPT !.pairs = (r :> new) @@ @],
                  ret |-> r,
                  src |-> IF found.ret = NULL THEN "arena" ELSE "freelist"]

(* _store_keyval_pair once _search_free_list has returned `found` *)
StoreInto(H, found, key, key_size, value, value_size, prior) ==
    LET size_required == SizeofKeyvalPair + key_size + value_size
        size_remaining == total_bytes - H.bytes_used
    IN  IF found.ret = NULL /\ size_required > size_remaining
        THEN [heap |-> H, ret |-> NULL, src |-> "none"]
        ELSE LET r == IF found.ret = NULL THEN H.bytes_used ELSE found.ret
                 H1 == IF found.ret = NULL
                       THEN [H EXCEPT !.bytes_used = @ + size_required]
                       ELSE found.heap
                 d1 == memcpy(prior, 0, key, key_size)
                 d2 == IF 0 < value_size /\ ~value.null
                       THEN memcpy(d1, key_size, value.bytes, value_size)
                       ELSE d1
                 new == [next |-> NULL, key_size |-> key_size,
                         value_size |-> value_size, data |-> d2]
             IN  [heap |-> [H1 EXCEPT !.pairs = (r :> new) @@ @],
                  ret |-> r,
                  src |-> IF found.ret = NULL THEN "arena" ELSE "freelist"]

_store_keyval_pair(H, key, key_size, value, value_size, prior) ==
    StoreInto(H, _search_free_list(H, SizeofKeyvalPair + key_size + value_size),
              key, key_size, value, value_size, prior)

(* a comparison that checks the sizes and forgets the memcmp *)
KeyMatches_size_only(H, curr, key, key_size) ==
    H.pairs[curr].key_size = key_size

(* (key_size == curr->key_size) && (0 == memcmp(key, curr->data, key_size)) *)
KeyMatches(H, curr, key, key_size) ==
    /\ H.pairs[curr].key_size = key_size
    /\ memcmp0(key, H.pairs[curr].data, key_size)

RECURSIVE SearchLoop(_, _, _, _, _)
SearchLoop(H, curr, prev, key, key_size) ==
    IF curr = NULL THEN [pair |-> NULL, prev |-> NULL]
    ELSE IF KeyMatches(H, curr, key, key_size)
         THEN [pair |-> curr, prev |-> prev]
         ELSE SearchLoop(H, H.pairs[curr].next, curr, key, key_size)

_search_list_by_key(H, list, key, key_size) ==
    SearchLoop(H, H.table[list].head, NULL, key, key_size)

(* an unlink that forgets table->entry_count -= 1u *)
_remove_from_table_keeps_count(H, list, item, prev) ==
    LET nxt == H.pairs[item].next
        l1 == IF item = H.table[list].head
              THEN [H.table[list] EXCEPT !.head = nxt] ELSE H.table[list]
        l2 == IF item = l1.tail THEN [l1 EXCEPT !.tail = prev] ELSE l1
        p1 == IF prev # NULL THEN [H.pairs EXCEPT ![prev].next = nxt] ELSE H.pairs
        p2 == [p1 EXCEPT ![item].next = NULL]
        slots == IF l2.head = NULL THEN H.array_slots_used - 1 ELSE H.array_slots_used
        p3 == IF H.freelist.head = NULL
              THEN p2 ELSE [p2 EXCEPT ![H.freelist.tail].next = item]
        fl == IF H.freelist.head = NULL
              THEN [head |-> item, tail |-> item]
              ELSE [H.freelist EXCEPT !.tail = item]
    IN  [H EXCEPT !.table = [@ EXCEPT ![list] = l2],
                  !.pairs = p3,
                  !.freelist = fl,
                  !.array_slots_used = slots]

(* a removal that puts the freed record at the head of the free list *)
_remove_from_table_frees_at_head(H, list, item, prev) ==
    LET nxt == H.pairs[item].next
        l1 == IF item = H.table[list].head
              THEN [H.table[list] EXCEPT !.head = nxt] ELSE H.table[list]
        l2 == IF item = l1.tail THEN [l1 EXCEPT !.tail = prev] ELSE l1
        p1 == IF prev # NULL THEN [H.pairs EXCEPT ![prev].next = nxt] ELSE H.pairs
        p2 == [p1 EXCEPT ![item].next = H.freelist.head]
        slots == IF l2.head = NULL THEN H.array_slots_used - 1 ELSE H.array_slots_used
        fl == IF H.freelist.head = NULL
              THEN [head |-> item, tail |-> item]
              ELSE [H.freelist EXCEPT !.head = item]
    IN  [H EXCEPT !.table = [@ EXCEPT ![list] = l2],
                  !.pairs = p2,
                  !.freelist = fl,
                  !.array_slots_used = slots,
                  !.entry_count = @ - 1]

(* a removal that leaves the tail of the list where it was *)
_remove_from_table_keeps_tail(H, list, item, prev) ==
    LET nxt == H.pairs[item].next
        l2 == IF item = H.table[list].head
              THEN [H.table[list] EXCEPT !.head = nxt] ELSE H.table[list]
        p1 == IF prev # NULL THEN [H.pairs EXCEPT ![prev].next = nxt] ELSE H.pairs
        p2 == [p1 EXCEPT ![item].next = NULL]
        slots == IF l2.head = NULL THEN H.array_slots_used - 1 ELSE H.array_slots_used
        p3 == IF H.freelist.head = NULL
              THEN p2 ELSE [p2 EXCEPT ![H.freelist.tail].next = item]
        fl == IF H.freelist.head = NULL
              THEN [head |-> item, tail |-> item]
              ELSE [H.freelist EXCEPT !.tail = item]
    IN  [H EXCEPT !.table = [@ EXCEPT ![list] = l2],
                  !.pairs = p3,
                  !.freelist = fl,
                  !.array_slots_used = slots,
                  !.entry_count = @ - 1]

(* a removal that leaves item->next as it was *)
_remove_from_table_keeps_next(H, list, item, prev) ==
    LET nxt == H.pairs[item].next
        l1 == IF item = H.table[list].head
              THEN [H.table[list] EXCEPT !.head = nxt] ELSE H.table[list]
        l2 == IF item = l1.tail THEN [l1 EXCEPT !.tail = prev] ELSE l1
        p2 == IF prev # NULL THEN [H.pairs EXCEPT ![prev].next = nxt] ELSE H.pairs
        slots == IF l2.head = NULL THEN H.array_slots_used - 1 ELSE H.array_slots_used
        p3 == IF H.freelist.head = NULL
              THEN p2 ELSE [p2 EXCEPT ![H.freelist.tail].next = item]
        fl == IF H.freelist.head = NULL
              THEN [head |-> item, tail |-> item]
              ELSE [H.freelist EXCEPT !.tail = item]
    IN  [H EXCEPT !.table = [@ EXCEPT ![list] = l2],
                  !.pairs = p3,
                  !.freelist = fl,
                  !.array_slots_used = slots,
                  !.entry_count = @ - 1]

_remove_from_table(H, list, item, prev) ==
    LET nxt == H.pairs[item].next
        l1 == IF item = H.table[list].head
              THEN [H.table[list] EXCEPT !.head = nxt] ELSE H.table[list]
        l2 == IF item = l1.tail THEN [l1 EXCEPT !.tail = prev] ELSE l1
        p1 == IF prev # NULL THEN [H.pairs EXCEPT ![prev].next = nxt] ELSE H.pairs
        p2 == [p1 EXCEPT ![item].next = NULL]
        slots == IF l2.head = NULL THEN H.array_slots_used - 1 ELSE H.array_slots_used
        p3 == IF H.freelist.head = NULL
              THEN p2 ELSE [p2 EXCEPT ![H.freelist.tail].next = item]
        fl == IF H.freelist.head = NULL
              THEN [head |-> item, tail |-> item]
              ELSE [H.freelist EXCEPT !.tail = item]
    IN  [H EXCEPT !.table = [@ EXCEPT ![list] = l2],
                  !.pairs = p3,
                  !.freelist = fl,
                  !.array_slots_used = slots,
                  !.entry_count = @ - 1]

(* a link step that counts a slot for every record it links *)
LinkStored_counts_every_link(H1, list, unlinked, stored) ==
    IF stored.ret = NULL
    THEN [heap |-> stored.heap, ret |-> 1, src |-> "none", unlinked |-> unlinked]
    ELSE LET H2 == stored.heap
             new == stored.ret
             empty == H2.table[list].head = NULL
             l1 == IF empty
                   THEN [head |-> new, tail |-> new]
                   ELSE [H2.table[list] EXCEPT !.tail = new]
             p1 == IF empty THEN H2.pairs
                   ELSE [H2.pairs EXCEPT ![H2.table[list].tail].next = new]
             p2 == [p1 EXCEPT ![new].next = NULL]
         IN  [heap |-> [H2 EXCEPT
                          !.table = [@ EXCEPT ![list] = l1],
                          !.pairs = p2,
                          !.array_slots_used = @ + 1,
                          !.entry_count = @ + 1],
              ret |-> 0, src |-> stored.src, unlinked |-> unlinked]

(* the tail of _insert_keyval_pair: link the stored record into the list *)
(* a link step that puts the stored record at the head of its list *)
LinkStored_at_head(H1, list, unlinked, stored) ==
    IF stored.ret = NULL
    THEN [heap |-> stored.heap, ret |-> 1, src |-> "none", unlinked |-> unlinked]
    ELSE LET H2 == stored.heap
             new == stored.ret
             empty == H2.table[list].head = NULL
             l1 == IF empty
                   THEN [head |-> new, tail |-> new]
                   ELSE [H2.table[list] EXCEPT !.head = new]
             p2 == [H2.pairs EXCEPT ![new].next = H2.table[list].head]
         IN  [heap |-> [H2 EXCEPT
                          !.table = [@ EXCEPT ![list] = l1],
                          !.pairs = p2,
                          !.array_slots_used = IF empty THEN @ + 1 ELSE @,
                          !.entry_count = @ + 1],
              ret |-> 0, src |-> stored.src, unlinked |-> unlinked]

LinkStored(H1, list, unlinked, stored) ==
    IF stored.ret = NULL
    THEN [heap |-> stored.heap, ret |-> 1, src |-> "none", unlinked |-> unlinked]
    ELSE LET H2 == stored.heap
             new == stored.ret
             empty == H2.table[list].head = NULL
             l1 == IF empty
                   THEN [head |-> new, tail |-> new]
                   ELSE [H2.table[list] EXCEPT !.tail = new]
             p1 == IF empty THEN H2.pairs
                   ELSE [H2.pairs EXCEPT ![H2.table[list].tail].next = new]
             p2 == [p1 EXCEPT ![new].next = NULL]
         IN  [heap |-> [H2 EXCEPT
                          !.table = [@ EXCEPT ![list] = l1],
                          !.pairs = p2,
                          !.array_slots_used = IF empty THEN @ + 1 ELSE @,
                          !.entry_count = @ + 1],
              ret |-> 0, src |-> stored.src, unlinked |-> unlinked]

(* an insert that stores a larger value in a new record and leaves the *)
(* old record in its list                                              *)
InsertFound_no_unlink(H, list, found, key, key_size, value, value_size, prior) ==
    LET pair == found.pair
    IN  IF pair # NULL /\ value_size <= H.pairs[pair].value_size
        THEN LET d1 == IF 0 < value_size /\ ~value.null
                       THEN memcpy(H.pairs[pair].data, H.pairs[pair].key_size,
                                   value.bytes, value_size)
                       ELSE H.pairs[pair].data
                 d2 == SubSeq(d1, 1, H.pairs[pair].key_size + value_size)
             IN  [heap |-> [H EXCEPT !.pairs[pair].value_size = value_size,
                                     !.pairs[pair].data = d2],
                  ret |-> 0, src |-> "inplace", unlinked |-> FALSE]
        ELSE LinkStored(H, list, FALSE,
                        _store_keyval_pair(H, key, key_size, value, value_size, prior))

(* an in-place update that copies the value but keeps the old value_size *)
InsertFound_keeps_size(H, list, found, key, key_size, value, value_size, prior) ==
    LET pair == found.pair
    IN  IF pair # NULL /\ value_size <= H.pairs[pair].value_size
        THEN LET d1 == IF 0 < value_size /\ ~value.null
                       THEN memcpy(H.pairs[pair].data, H.pairs[pair].key_size,
                                   value.bytes, value_size)
                       ELSE H.pairs[pair].data
             IN  [heap |-> [H EXCEPT !.pairs[pair].data = d1],
                  ret |-> 0, src |-> "inplace", unlinked |-> FALSE]
        ELSE IF pair # NULL
        THEN LinkStored(_remove_from_table(H, list, pair, found.prev), list, TRUE,
                        _store_keyval_pair(_remove_from_table(H, list, pair, found.prev),
                                           key, key_size, value, value_size, prior))
        ELSE LinkStored(H, list, FALSE,
                        _store_keyval_pair(H, key, key_size, value, value_size, prior))

(* _insert_keyval_pair once _search_list_by_key has returned `found` *)
InsertFound(H, list, found, key, key_size, value, value_size, prior) ==
    LET pair == found.pair
    IN  IF pair # NULL /\ value_size <= H.pairs[pair].value_size
        THEN LET d1 == IF 0 < value_size /\ ~value.null
                       THEN memcpy(H.pairs[pair].data, H.pairs[pair].key_size,
                                   value.bytes, value_size)
                       ELSE H.pairs[pair].data
                 d2 == SubSeq(d1, 1, H.pairs[pair].key_size + value_size)
             IN  [heap |-> [H EXCEPT !.pairs[pair].value_size = value_size,
                                     !.pairs[pair].data = d2],
                  ret |-> 0, src |-> "inplace", unlinked |-> FALSE]
        ELSE IF pair # NULL
        THEN LinkStored(_remove_from_table(H, list, pair, found.prev), list, TRUE,
                        _store_keyval_pair(_remove_from_table(H, list, pair, found.prev),
                                           key, key_size, value, value_size, prior))
        ELSE LinkStored(H, list, FALSE,
                        _store_keyval_pair(H, key, key_size, value, value_size, prior))

(* an insert that never looks for the key in its list *)
_insert_keyval_pair_no_search(H, key, key_size, value, value_size, prior) ==
    InsertFound(H, _get_table_list_by_key(key, key_size),
                [pair |-> NULL, prev |-> NULL],
                key, key_size, value, value_size, prior)

_insert_keyval_pair(H, key, key_size, value, value_size, prior) ==
    InsertFound(H, _get_table_list_by_key(key, key_size),
                _search_list_by_key(H, _get_table_list_by_key(key, key_size), key, key_size),
                key, key_size, value, value_size, prior)

NoOut == [key |-> UNTOUCHED, key_size |-> UNTOUCHED, value |-> UNTOUCHED,
          value_size |-> UNTOUCHED, bytes_remaining |-> UNTOUCHED]
NoPath == [src |-> "none", unlinked |-> FALSE]
NoCall == [key |-> <<>>, value |-> NullBuf, value_size |-> 0]
KeyCall(k) == [key |-> k, value |-> NullBuf, value_size |-> 0]

(* the state after hashtable_create(&table, &config, buffer, buffer_size) *)
(* returned 0 for a supplied config {hash, NumBuckets}                     *)
CreatedOver(buffer_size) ==
    \E h \in HashFns :
        LET n == NumBuckets
        IN  /\ config_hash = h
            /\ array_count = NumBuckets
            /\ table = [i \in 0..(NumBuckets - 1) |-> [head |-> NULL, tail |-> NULL]]
            /\ cursor_array_index = 0
            /\ cursor_items_traversed = 0
            /\ cursor_item = NULL
            /\ cursor_limit = 0
            /\ freelist = [head |-> NULL, tail |-> NULL]
            /\ total_bytes = buffer_size - HASHTABLE_MIN_BUFFER_SIZE(NumBuckets)
            /\ bytes_used = 0
            /\ array_slots_used = 0
            /\ entry_count = 0
            /\ pairs = [a \in {} |-> 0]
            /\ error_msg = ""
            /\ op = "create" /\ ret = 0 /\ out = NoOut
            /\ path = NoPath
            /\ call = NoCall
            /\ emitted = <<>>
            /\ clean = TRUE
            /\ script = <<>> /\ snapshot = 0
            /\ removed_in_order = TRUE /\ step = 0

(* the same for a buffer of HASHTABLE_MIN_BUFFER_SIZE(NumBuckets) + *)
(* ArenaBytes bytes                                                 *)
Created == CreatedOver(HASHTABLE_MIN_BUFFER_SIZE(NumBuckets) + ArenaBytes)

(* the table was created with hashtable_default_config's hash; right after *)
(* create the cursor is at its start, so the client may either update the  *)
(* table or traverse it                                                    *)
Init == Created /\ config_hash = "fnv1a" /\ phase \in {"update", "traverse"}

(* the table was created with either hash function *)
InitAnyHash == Created /\ phase = "update"

SetHeap(H) ==
    /\ table' = H.table
    /\ freelist' = H.freelist
    /\ pairs' = H.pairs
    /\ bytes_used' = H.bytes_used
    /\ entry_count' = H.entry_count
    /\ array_slots_used' = H.array_slots_used

(* ERROR(msg); return -1; *)
Invalid(o, msg, mutator) ==
    /\ op' = o /\ ret' = -1 /\ out' = NoOut
    /\ error_msg' = msg
    /\ path' = NoPath
    /\ clean' = (clean /\ ~mutator)
    /\ emitted' = IF mutator THEN <<>> ELSE emitted
    /\ UNCHANGED <<heapvars, cursorvars, configvars>>

(* a query that puts the cursor back on the first slot *)
Query_rewinds(o, r, outs) ==
    /\ op' = o /\ ret' = r /\ out' = outs
    /\ path' = NoPath
    /\ cursor_array_index' = 0
    /\ cursor_item' = NULL
    /\ UNCHANGED <<heapvars, cursor_items_traversed, cursor_limit, configvars,
                   error_msg, clean, emitted>>

(* a read-only function returns r with the outputs o written *)
Query(o, r, outs) ==
    /\ op' = o /\ ret' = r /\ out' = outs
    /\ path' = NoPath
    /\ UNCHANGED <<heapvars, cursorvars, configvars, error_msg, clean, emitted>>

(* what the bytes of a newly stored record held before: it matters only  *)
(* for the value bytes that _store_keyval_pair leaves unwritten           *)
PriorContent(key_size, value, value_size) ==
    IF value.null /\ 0 < value_size
    THEN {[i \in 1..key_size |-> 0] \o j : j \in [1..value_size -> AnyByte]}
    ELSE {[i \in 1..(key_size + value_size) |-> 0]}

(* an insert that takes a NULL value pointer for an invalid argument *)
hashtable_insert_value_required(tbl, key, key_size, value, value_size) ==
    IF ~tbl \/ key.null \/ value.null
    THEN Invalid("insert", "NULL pointer passed to function", TRUE)
    ELSE IF key_size = 0
    THEN Invalid("insert", "Invalid size value passed to function", TRUE)
    ELSE \E prior \in PriorContent(key_size, value, value_size) :
         \E r \in {_insert_keyval_pair(Heap, key.bytes, key_size, value, value_size, prior)} :
             /\ SetHeap(r.heap)
             /\ op' = "insert" /\ ret' = r.ret /\ out' = NoOut
             /\ path' = [src |-> r.src, unlinked |-> r.unlinked]
             /\ clean' = FALSE
             /\ emitted' = <<>>
             /\ UNCHANGED <<cursorvars, configvars, error_msg>>

hashtable_insert(tbl, key, key_size, value, value_size) ==
    IF ~tbl \/ key.null
    THEN Invalid("insert", "NULL pointer passed to function", TRUE)
    ELSE IF key_size = 0
    THEN Invalid("insert", "Invalid size value passed to function", TRUE)
    ELSE \E prior \in PriorContent(key_size, value, value_size) :
         \E r \in {_insert_keyval_pair(Heap, key.bytes, key_size, value, value_size, prior)} :
             /\ SetHeap(r.heap)
             /\ op' = "insert" /\ ret' = r.ret /\ out' = NoOut
             /\ path' = [src |-> r.src, unlinked |-> r.unlinked]
             /\ clean' = FALSE
             /\ emitted' = <<>>
             /\ UNCHANGED <<cursorvars, configvars, error_msg>>

(* a remove that reports a key it does not find as an invalid call *)
hashtable_remove_absent_invalid(tbl, key, key_size) ==
    IF ~tbl \/ key.null
    THEN Invalid("remove", "NULL pointer passed to function", TRUE)
    ELSE IF key_size = 0
    THEN Invalid("remove", "Invalid size value passed to function", TRUE)
    ELSE LET list == _get_table_list_by_key(key.bytes, key_size)
         IN  \E found \in {_search_list_by_key(Heap, list, key.bytes, key_size)} :
             /\ IF found.pair = NULL
                THEN /\ ret' = -1
                     /\ UNCHANGED heapvars
                ELSE /\ ret' = 0
                     /\ SetHeap(_remove_from_table(Heap, list, found.pair, found.prev))
             /\ op' = "remove" /\ out' = NoOut
             /\ path' = NoPath
             /\ clean' = FALSE
             /\ emitted' = <<>>
             /\ UNCHANGED <<cursorvars, configvars, error_msg>>

(* a remove that gives the record's bytes back to the data block *)
hashtable_remove_refund(tbl, key, key_size) ==
    IF ~tbl \/ key.null
    THEN Invalid("remove", "NULL pointer passed to function", TRUE)
    ELSE IF key_size = 0
    THEN Invalid("remove", "Invalid size value passed to function", TRUE)
    ELSE LET list == _get_table_list_by_key(key.bytes, key_size)
         IN  \E found \in {_search_list_by_key(Heap, list, key.bytes, key_size)} :
             /\ IF found.pair = NULL
                THEN /\ ret' = 1
                     /\ UNCHANGED heapvars
                ELSE /\ ret' = 0
                     /\ SetHeap([_remove_from_table(Heap, list, found.pair, found.prev)
                                   EXCEPT !.bytes_used =
                                       @ - (SizeofKeyvalPair + pairs[found.pair].key_size
                                            + pairs[found.pair].value_size)])
             /\ op' = "remove" /\ out' = NoOut
             /\ path' = NoPath
             /\ clean' = FALSE
             /\ emitted' = <<>>
             /\ UNCHANGED <<cursorvars, configvars, error_msg>>

hashtable_remove(tbl, key, key_size) ==
    IF ~tbl \/ key.null
    THEN Invalid("remove", "NULL pointer passed to function", TRUE)
    ELSE IF key_size = 0
    THEN Invalid("remove", "Invalid size value passed to function", TRUE)
    ELSE LET list == _get_table_list_by_key(key.bytes, key_size)
         IN  \E found \in {_search_list_by_key(Heap, list, key.bytes, key_size)} :
             /\ IF found.pair = NULL
                THEN /\ ret' = 1
                     /\ UNCHANGED heapvars
                ELSE /\ ret' = 0
                     /\ SetHeap(_remove_from_table(Heap, list, found.pair, found.prev))
             /\ op' = "remove" /\ out' = NoOut
             /\ path' = NoPath
             /\ clean' = FALSE
             /\ emitted' = <<>>
             /\ UNCHANGED <<cursorvars, configvars, error_msg>>

(* hashtable_retrieve with valid arguments: the return value and the *)
(* caller's outputs; value and value_size say which outputs are given, *)
(* H is the table's memory                                             *)
(* a retrieve that clears the caller's value_size before it looks for the key *)
RetrieveOut_clears_size(H, key, key_size, value, value_size) ==
    LET list == _get_table_list_by_key(key, key_size)
        pair == _search_list_by_key(H, list, key, key_size).pair
    IN  IF pair = NULL
        THEN [ret |-> 1,
              out |-> [NoOut EXCEPT !.value_size = IF value_size THEN 0 ELSE UNTOUCHED]]
        ELSE [ret |-> 0,
              out |-> [NoOut EXCEPT
                         !.value = IF value /\ 0 < H.pairs[pair].value_size
                                   THEN PairData(pair) + H.pairs[pair].key_size
                                   ELSE UNTOUCHED,
                         !.value_size = IF value_size
                                        THEN H.pairs[pair].value_size ELSE UNTOUCHED]]

RetrieveOut(H, key, key_size, value, value_size) ==
    LET list == _get_table_list_by_key(key, key_size)
        pair == _search_list_by_key(H, list, key, key_size).pair
    IN  IF pair = NULL
        THEN [ret |-> 1, out |-> NoOut]
        ELSE [ret |-> 0,
              out |-> [NoOut EXCEPT
                         !.value = IF value /\ 0 < H.pairs[pair].value_size
                                   THEN PairData(pair) + H.pairs[pair].key_size
                                   ELSE UNTOUCHED,
                         !.value_size = IF value_size
                                        THEN H.pairs[pair].value_size ELSE UNTOUCHED]]

hashtable_retrieve(tbl, key, key_size, value, value_size) ==
    IF ~tbl \/ key.null
    THEN Invalid("retrieve", "NULL pointer passed to function", FALSE)
    ELSE \E r \in {RetrieveOut(Heap, key.bytes, key_size, value, value_size)} :
             Query("retrieve", r.ret, r.out)

hashtable_has_key(tbl, key, key_size) ==
    IF ~tbl \/ key.null
    THEN Invalid("has_key", "NULL pointer passed to function", FALSE)
    ELSE LET list == _get_table_list_by_key(key.bytes, key_size)
         IN  \E pair \in {_search_list_by_key(Heap, list, key.bytes, key_size).pair} :
             Query("has_key", IF pair = NULL THEN 0 ELSE 1, NoOut)

hashtable_bytes_remaining(tbl, bytes_remaining) ==
    IF ~tbl \/ ~bytes_remaining
    THEN Invalid("bytes_remaining", "NULL pointer passed to function", FALSE)
    ELSE Query("bytes_remaining", 0,
               [NoOut EXCEPT !.bytes_remaining = total_bytes - bytes_used])

(* a cursor that never moves on to the next slot *)
Advance_stay(idx, it) ==
    [found |-> TRUE, pair |-> it, item |-> pairs[it].next, idx |-> idx]

(* hashtable_next_item found the record `it` in slot idx: the cursor moves *)
(* to its successor, and to the next slot when there is none              *)
Advance(idx, it) ==
    [found |-> TRUE, pair |-> it, item |-> pairs[it].next,
     idx |-> IF pairs[it].next = NULL THEN idx + 1 ELSE idx]

(* the while loop of hashtable_next_item, from slot idx with cursor item *)
RECURSIVE NextItemLoop(_, _)
NextItemLoop(idx, item) ==
    IF idx < array_count /\ cursor_items_traversed < entry_count
    THEN LET it == IF item = NULL THEN table[idx].head ELSE item
         IN  IF it # NULL
             THEN Advance(idx, it)
             ELSE NextItemLoop(idx + 1, it)
    ELSE [found |-> FALSE, pair |-> NULL, item |-> item, idx |-> idx]

(* a check that never sees the limit flag *)
CursorLimitReached_never == FALSE

(* if (td->cursor_limit) *)
CursorLimitReached == cursor_limit # 0

(* *value = ... is executed for a record with a value whether or not the *)
(* caller gave a value output: with value NULL the store goes through a  *)
(* null pointer, which is undefined: the process is killed by the store, *)
(* or the build drops the store and the call goes on                     *)
NullWriteOutcomes(r, value) ==
    IF r.found /\ ~value /\ 0 < pairs[r.pair].value_size
    THEN {"killed", "skipped"}
    ELSE {"returned"}

(* a next_item that does not check its key output for NULL *)
hashtable_next_item_key_unchecked(tbl, key, key_size, value, value_size) ==
    IF ~tbl
    THEN Invalid("next_item", "NULL pointer passed to function", FALSE)
    ELSE IF CursorLimitReached
    THEN Query("next_item", 1, NoOut)
    ELSE \E r \in {NextItemLoop(cursor_array_index, cursor_item)} :
         \E outcome \in NullWriteOutcomes(r, value) :
             /\ op' = "next_item"
             /\ path' = NoPath
             /\ IF outcome = "killed"
                THEN /\ ret' = UNTOUCHED
                     /\ out' = NoOut
                     /\ UNCHANGED <<cursorvars, error_msg, emitted>>
                ELSE /\ cursor_array_index' = r.idx
                     /\ cursor_item' = r.item
                     /\ IF r.found
                        THEN /\ ret' = 0
                             /\ out' = [NoOut EXCEPT
                                          !.key = PairData(r.pair),
                                          !.value = IF value /\ 0 < pairs[r.pair].value_size
                                                    THEN PairData(r.pair)
                                                            + pairs[r.pair].key_size
                                                    ELSE UNTOUCHED,
                                          !.key_size = IF key_size
                                                       THEN pairs[r.pair].key_size
                                                       ELSE UNTOUCHED,
                                          !.value_size = IF value_size
                                                         THEN pairs[r.pair].value_size
                                                         ELSE UNTOUCHED]
                             /\ cursor_items_traversed' = cursor_items_traversed + 1
                             /\ emitted' = IF clean
                                           THEN Append(emitted,
                                                  <<Deref(pairs, PairData(r.pair),
                                                          pairs[r.pair].key_size),
                                                    Deref(pairs,
                                                          PairData(r.pair)
                                                             + pairs[r.pair].key_size,
                                                          pairs[r.pair].value_size)>>)
                                           ELSE emitted
                             /\ UNCHANGED <<cursor_limit, error_msg>>
                        ELSE /\ ret' = 1
                             /\ out' = NoOut
                             /\ cursor_limit' = 1
                             /\ error_msg' = "Cursor limit reached"
                             /\ UNCHANGED <<cursor_items_traversed, emitted>>
             /\ UNCHANGED <<heapvars, configvars, clean>>

hashtable_next_item(tbl, key, key_size, value, value_size) ==
    IF ~tbl \/ ~key
    THEN Invalid("next_item", "NULL pointer passed to function", FALSE)
    ELSE IF CursorLimitReached
    THEN Query("next_item", 1, NoOut)
    ELSE \E r \in {NextItemLoop(cursor_array_index, cursor_item)} :
         \E outcome \in NullWriteOutcomes(r, value) :
             /\ op' = "next_item"
             /\ path' = NoPath
             /\ IF outcome = "killed"
                THEN /\ ret' = UNTOUCHED
                     /\ out' = NoOut
                     /\ UNCHANGED <<cursorvars, error_msg, emitted>>
                ELSE /\ cursor_array_index' = r.idx
                     /\ cursor_item' = r.item
                     /\ IF r.found
                        THEN /\ ret' = 0
                             /\ out' = [NoOut EXCEPT
                                          !.key = PairData(r.pair),
                                          !.value = IF value /\ 0 < pairs[r.pair].value_size
                                                    THEN PairData(r.pair)
                                                            + pairs[r.pair].key_size
                                                    ELSE UNTOUCHED,
                                          !.key_size = IF key_size
                                                       THEN pairs[r.pair].key_size
                                                       ELSE UNTOUCHED,
                                          !.value_size = IF value_size
                                                         THEN pairs[r.pair].value_size
                                                         ELSE UNTOUCHED]
                             /\ cursor_items_traversed' = cursor_items_traversed + 1
                             /\ emitted' = IF clean
                                           THEN Append(emitted,
                                                  <<Deref(pairs, PairData(r.pair),
                                                          pairs[r.pair].key_size),
                                                    Deref(pairs,
                                                          PairData(r.pair)
                                                             + pairs[r.pair].key_size,
                                                          pairs[r.pair].value_size)>>)
                                           ELSE emitted
                             /\ UNCHANGED <<cursor_limit, error_msg>>
                        ELSE /\ ret' = 1
                             /\ out' = NoOut
                             /\ cursor_limit' = 1
                             /\ error_msg' = "Cursor limit reached"
                             /\ UNCHANGED <<cursor_items_traversed, emitted>>
             /\ UNCHANGED <<heapvars, configvars, clean>>

hashtable_reset_cursor(tbl) ==
    IF ~tbl
    THEN Invalid("reset_cursor", "NULL pointer passed to function", FALSE)
    ELSE /\ cursor_array_index' = 0
         /\ cursor_items_traversed' = 0
         /\ cursor_item' = table[0].head
         /\ cursor_limit' = 0
         /\ op' = "reset_cursor" /\ ret' = 0 /\ out' = NoOut
         /\ path' = NoPath
         /\ clean' = TRUE
         /\ emitted' = <<>>
         /\ UNCHANGED <<heapvars, configvars, error_msg>>

(* hashtable_clear(table): the slots, the cursor, the free list and the  *)
(* data block are reset; table->entry_count and table->array_slots_used  *)
(* are not written. total_bytes is computed again from table->data_size  *)
(* and the array count, which have not changed since hashtable_create    *)
hashtable_clear(tbl) ==
    IF ~tbl
    THEN Invalid("clear", "NULL pointer passed to function", TRUE)
    ELSE /\ table' = [i \in DOMAIN table |-> [head |-> NULL, tail |-> NULL]]
         /\ cursor_array_index' = 0
         /\ cursor_items_traversed' = 0
         /\ cursor_item' = NULL
         /\ cursor_limit' = 0
         /\ freelist' = [head |-> NULL, tail |-> NULL]
         /\ bytes_used' = 0
         /\ pairs' = [a \in {} |-> 0]
         /\ op' = "clear" /\ ret' = 0 /\ out' = NoOut
         /\ path' = NoPath
         /\ clean' = FALSE
         /\ emitted' = <<>>
         /\ UNCHANGED <<entry_count, array_slots_used, configvars, error_msg>>

(* ---- hashtable_create -------------------------------------------------- *)
IDEAL_BUFFER_TABLE_PERCENT == 12
HASHTABLE_MIN_ARRAY_COUNT == 10
ARRAY_SIZE_BYTES(n) == (n * SizeofKeyvalPairList) + SizeofListTable

NullConfig == [null |-> TRUE, hash |-> "null", array_count |-> 0]

(* ---- size_t arithmetic: a size_t is four 16-bit limbs, lowest first ---- *)
SizeT(n) == <<n % 65536, n \div 65536, 0, 0>>

(* x * m + carry in the width of x: the carry out of the top limb is lost *)
RECURSIVE MulLimbs(_, _, _)
MulLimbs(x, m, carry) ==
    IF x = <<>> THEN <<>>
    ELSE LET p == (Head(x) * m) + carry
         IN  <<p % 65536>> \o MulLimbs(Tail(x), m, p \div 65536)

(* x / d and x % d for a divisor below 2^15 *)
RECURSIVE DivLimbs(_, _)
DivLimbs(x, d) ==
    IF x = <<>> THEN [q |-> <<>>, r |-> 0]
    ELSE LET upper == DivLimbs(Tail(x), d)
             t == (upper.r * 65536) + Head(x)
         IN  [q |-> <<t \div d>> \o upper.q, r |-> t % d]

(* x + n in the width of x *)
RECURSIVE AddLimbs(_, _)
AddLimbs(x, n) ==
    IF x = <<>> THEN <<>>
    ELSE LET t == Head(x) + n
         IN  <<t % 65536>> \o AddLimbs(Tail(x), t \div 65536)

(* x - n in the width of x, for n below 2^16 *)
RECURSIVE SubLimbs(_, _)
SubLimbs(x, n) ==
    IF x = <<>> THEN <<>>
    ELSE IF Head(x) >= n THEN <<Head(x) - n>> \o Tail(x)
    ELSE <<(Head(x) + 65536) - n>> \o SubLimbs(Tail(x), 1)

(* x > n for n below 2^16 *)
LimbsAbove(x, n) == (\E i \in 2..Len(x) : x[i] > 0) \/ x[1] > n

(* the array count hashtable_default_config computes for a size_t        *)
(* buffer_size, as the uint32_t that config->array_count then holds: the *)
(* low two limbs of the size_t result                                    *)
DefaultArrayCount(buffer_size) ==
    LET buf_min_size == DivLimbs(MulLimbs(buffer_size, IDEAL_BUFFER_TABLE_PERCENT, 0),
                                 100).q
        array_min_size == ARRAY_SIZE_BYTES(HASHTABLE_MIN_ARRAY_COUNT)
    IN  IF LimbsAbove(buf_min_size, array_min_size)
        THEN SubSeq(AddLimbs(DivLimbs(SubLimbs(buf_min_size, SizeofListTable),
                                      SizeofKeyvalPairList).q, 1),
                    1, 2)
        ELSE <<HASHTABLE_MIN_ARRAY_COUNT, 0>>

(* what hashtable_default_config(&table->config, buffer_size) writes, for *)
(* a buffer_size below 2^31                                               *)
hashtable_default_config(buffer_size) ==
    LET n == DefaultArrayCount(SizeT(buffer_size))
    IN  [null |-> FALSE,
         hash |-> "fnv1a",
         array_count |-> (n[2] * 65536) + n[1]]

(* a test that also rejects a buffer of exactly the minimum size *)
BufferTooSmall_or_equal(buffer_size, min_required_size) ==
    buffer_size <= min_required_size

(* buffer_size < min_required_size *)
BufferTooSmall(buffer_size, min_required_size) == buffer_size < min_required_size

(* a set-up that leaves data_block->bytes_used as the buffer holds it *)
_setup_new_table_keeps_used(n, buffer_size) ==
    IF BufferTooSmall(buffer_size, HASHTABLE_MIN_BUFFER_SIZE(n))
    THEN [ret |-> 1]
    ELSE [ret |-> 0,
          table |-> [i \in 0..(n - 1) |-> [head |-> NULL, tail |-> NULL]],
          cursor_array_index |-> 0,
          cursor_items_traversed |-> 0,
          cursor_item |-> NULL,
          cursor_limit |-> 0,
          array_count |-> n,
          freelist |-> [head |-> NULL, tail |-> NULL],
          total_bytes |-> buffer_size - HASHTABLE_MIN_BUFFER_SIZE(n),
          bytes_used |-> bytes_used]

(* _setup_new_table(table, array_count, buffer, buffer_size): its return *)
(* value and, when that is 0, what it writes into the buffer             *)
_setup_new_table(n, buffer_size) ==
    IF BufferTooSmall(buffer_size, HASHTABLE_MIN_BUFFER_SIZE(n))
    THEN [ret |-> 1]
    ELSE [ret |-> 0,
          table |-> [i \in 0..(n - 1) |-> [head |-> NULL, tail |-> NULL]],
          cursor_array_index |-> 0,
          cursor_items_traversed |-> 0,
          cursor_item |-> NULL,
          cursor_limit |-> 0,
          array_count |-> n,
          freelist |-> [head |-> NULL, tail |-> NULL],
          total_bytes |-> buffer_size - HASHTABLE_MIN_BUFFER_SIZE(n),
          bytes_used |-> 0]

(* hashtable_create(table, config, buffer, buffer_size) with a buffer that *)
(* is not NULL; tbl says that table is not NULL                            *)
hashtable_create(tbl, config, buffer_size) ==
    IF ~tbl
    THEN Invalid("create", "NULL pointer passed to function", FALSE)
    ELSE IF ~config.null /\ config.hash = "null"
    THEN Invalid("create", "NULL function pointer in hashtable_config_t", FALSE)
    ELSE IF ~config.null /\ config.array_count = 0
    THEN Invalid("create", "Zero array count in hashtable_config_t", FALSE)
    ELSE \E cfg \in {IF config.null THEN hashtable_default_config(buffer_size)
                     ELSE config} :
         \E r \in {_setup_new_table(cfg.array_count, buffer_size)} :
             /\ op' = "create" /\ ret' = r.ret /\ out' = NoOut
             /\ path' = NoPath
             /\ config_hash' = cfg.hash
             /\ IF r.ret # 0
                THEN UNCHANGED <<heapvars, cursorvars, array_count, total_bytes,
                                 clean, emitted>>
                ELSE /\ table' = r.table
                     /\ cursor_array_index' = r.cursor_array_index
                     /\ cursor_items_traversed' = r.cursor_items_traversed
                     /\ cursor_item' = r.cursor_item
                     /\ cursor_limit' = r.cursor_limit
                     /\ array_count' = r.array_count
                     /\ freelist' = r.freelist
                     /\ total_bytes' = r.total_bytes
                     /\ bytes_used' = r.bytes_used
                     /\ pairs' = [a \in {} |-> 0]
                     /\ array_slots_used' = 0
                     /\ entry_count' = 0
                     /\ clean' = TRUE
                     /\ emitted' = <<>>
             /\ UNCHANGED error_msg

(* ---- the calls a client makes ----------------------------------------- *)
(* The client uses the table as supported: it does not insert or remove    *)
(* between hashtable_reset_cursor and the end of the traversal.            *)
ValueArgs == {<<Buf(v), Len(v)>> : v \in Values} \cup {<<NullBuf, 0>>}

runvars == <<script, snapshot, removed_in_order, step>>

Insert ==
    /\ phase = "update"
    /\ \E k \in Keys, va \in ValueArgs :
           /\ hashtable_insert(TRUE, Buf(k), Len(k), va[1], va[2])
           /\ call' = [key |-> k, value |-> va[1], value_size |-> va[2]]
    /\ UNCHANGED scriptvars

Remove ==
    /\ phase = "update"
    /\ \E k \in Keys : hashtable_remove(TRUE, Buf(k), Len(k)) /\ call' = KeyCall(k)
    /\ UNCHANGED scriptvars

Retrieve ==
    /\ phase \in {"update", "traverse"}
    /\ \E k \in Keys : hashtable_retrieve(TRUE, Buf(k), Len(k), TRUE, TRUE) /\ call' = KeyCall(k)
    /\ UNCHANGED scriptvars

HasKey ==
    /\ phase = "update"
    /\ \E k \in Keys : hashtable_has_key(TRUE, Buf(k), Len(k)) /\ call' = KeyCall(k)
    /\ UNCHANGED scriptvars

BytesRemaining ==
    /\ phase = "update"
    /\ hashtable_bytes_remaining(TRUE, TRUE)
    /\ call' = NoCall
    /\ UNCHANGED scriptvars

ResetCursor ==
    /\ phase \in {"update", "traverse"}
    /\ hashtable_reset_cursor(TRUE)
    /\ call' = NoCall
    /\ phase' = "traverse"
    /\ UNCHANGED runvars

NextItem ==
    /\ phase = "traverse"
    /\ hashtable_next_item(TRUE, TRUE, TRUE, TRUE, TRUE)
    /\ call' = NoCall
    /\ phase' = IF ret' = 0 THEN "traverse" ELSE "update"
    /\ UNCHANGED runvars

Next ==
    \/ Insert
    \/ Remove
    \/ Retrieve
    \/ HasKey
    \/ BytesRemaining
    \/ ResetCursor
    \/ NextItem

Spec == Init /\ [][Next]_vars

(* a client that only updates and queries, for either hash function *)
NextAnyHash ==
    \/ Insert
    \/ Remove
    \/ Retrieve
    \/ HasKey

SpecAnyHash == InitAnyHash /\ [][NextAnyHash]_vars


(* ---- a client that inserts records, removes them all, reinserts them ---- *)
(* as test_hashtable_bytes_remaining_unchanged_after_reinserting_removed_   *)
(* items does, but removing in any order                                    *)
InitReinsert == Created /\ phase = "s_insert"

ScriptKeys == {script[i].key : i \in 1..Len(script)}

ScriptInsert ==
    /\ phase = "s_insert"
    /\ \E k \in Keys \ ScriptKeys, va \in ValueArgs :
           /\ hashtable_insert(TRUE, Buf(k), Len(k), va[1], va[2])
           /\ ret' = 0
           /\ call' = [key |-> k, value |-> va[1], value_size |-> va[2]]
           /\ script' = Append(script, [key |-> k, value |-> va[1],
                                        value_size |-> va[2], removed |-> FALSE])
    /\ snapshot' = total_bytes - bytes_used'
    /\ UNCHANGED <<phase, removed_in_order, step>>

ScriptRemove ==
    /\ phase \in {"s_insert", "s_remove"}
    /\ \E i \in 1..Len(script) :
           /\ ~script[i].removed
           /\ hashtable_remove(TRUE, Buf(script[i].key), Len(script[i].key))
           /\ call' = KeyCall(script[i].key)
           /\ script' = [script EXCEPT ![i].removed = TRUE]
           /\ removed_in_order' =
                  (removed_in_order /\ \A j \in 1..(i - 1) : script[j].removed)
    /\ phase' = "s_remove"
    /\ UNCHANGED <<snapshot, step>>

ScriptReinsert ==
    /\ phase \in {"s_remove", "s_reinsert"}
    /\ \A i \in 1..Len(script) : script[i].removed
    /\ step < Len(script)
    /\ \E e \in {script[step + 1]} :
           /\ hashtable_insert(TRUE, Buf(e.key), Len(e.key), e.value, e.value_size)
           /\ call' = [key |-> e.key, value |-> e.value, value_size |-> e.value_size]
    /\ step' = step + 1
    /\ phase' = IF ret' # 0 THEN "s_failed"
                ELSE IF step + 1 = Len(script) THEN "s_done" ELSE "s_reinsert"
    /\ UNCHANGED <<script, snapshot, removed_in_order>>

NextReinsert ==
    \/ ScriptInsert
    \/ ScriptRemove
    \/ ScriptReinsert

SpecReinsert == InitReinsert /\ [][NextReinsert]_vars

(* ---- a client that inserts and removes in the middle of a traversal ---- *)
InitMixed == Created /\ config_hash = "fnv1a" /\ phase = "mixed"

(* this client stores keys without values *)
MixedInsert ==
    /\ \E k \in Keys :
           /\ hashtable_insert(TRUE, Buf(k), Len(k), NullBuf, 0)
           /\ call' = KeyCall(k)
    /\ UNCHANGED scriptvars

MixedRemove ==
    /\ \E k \in Keys : hashtable_remove(TRUE, Buf(k), Len(k)) /\ call' = KeyCall(k)
    /\ UNCHANGED scriptvars

MixedResetCursor ==
    /\ hashtable_reset_cursor(TRUE)
    /\ call' = NoCall
    /\ UNCHANGED scriptvars

MixedNextItem ==
    /\ hashtable_next_item(TRUE, TRUE, TRUE, TRUE, TRUE)
    /\ call' = NoCall
    /\ UNCHANGED scriptvars

NextMixed ==
    \/ MixedInsert
    \/ MixedRemove
    \/ MixedResetCursor
    \/ MixedNextItem

SpecMixed == InitMixed /\ [][NextMixed]_vars

(* ---- a client that creates tables over a buffer it has used ------------ *)
SuppliedConfig(h, n) == [null |-> FALSE, hash |-> h, array_count |-> n]

(* the array count hashtable_create works with for this config *)
CountOf(config, buffer_size) ==
    IF config.null THEN hashtable_default_config(buffer_size).array_count
    ELSE config.array_count

(* buffer sizes around the minimum for the config's array count *)
BufferSizes(config) ==
    LET min == HASHTABLE_MIN_BUFFER_SIZE(CountOf(config, 0))
    IN  {min - 1, min, min + ArenaBytes}

(* the calls of hashtable_create the client makes: the default and a    *)
(* supplied config with each buffer size, and one call for each invalid *)
(* argument                                                             *)
CreateArgs ==
    UNION {{[table |-> TRUE, config |-> c, buffer_size |-> b] :
               b \in BufferSizes(c)} :
           c \in {NullConfig, SuppliedConfig("fnv1a", NumBuckets)}}
    \cup
    {[table |-> FALSE, config |-> SuppliedConfig("fnv1a", NumBuckets),
      buffer_size |-> HASHTABLE_MIN_BUFFER_SIZE(NumBuckets) + ArenaBytes],
     [table |-> TRUE, config |-> SuppliedConfig("null", NumBuckets),
      buffer_size |-> HASHTABLE_MIN_BUFFER_SIZE(NumBuckets) + ArenaBytes],
     [table |-> TRUE, config |-> SuppliedConfig("fnv1a", 0),
      buffer_size |-> HASHTABLE_MIN_BUFFER_SIZE(NumBuckets) + ArenaBytes],
     [table |-> TRUE, config |-> SuppliedConfig("null", 0),
      buffer_size |-> HASHTABLE_MIN_BUFFER_SIZE(0) - 1]}

InitCreate == Created /\ phase = "created"

CreateCall ==
    /\ phase \in {"created", "failed"}
    /\ \E c \in CreateArgs :
          /\ hashtable_create(c.table, c.config, c.buffer_size)
          /\ call' = c
          /\ phase' = IF ret' = 0 THEN "created"
                      ELSE IF c.table THEN "failed" ELSE phase
    /\ snapshot' = entry_count
    /\ UNCHANGED <<script, removed_in_order, step>>

CreatedInsert ==
    /\ phase = "created"
    /\ \E k \in Keys :
           /\ hashtable_insert(TRUE, Buf(k), Len(k), NullBuf, 0)
           /\ call' = KeyCall(k)
    /\ snapshot' = 0
    /\ UNCHANGED <<phase, script, removed_in_order, step>>

CreatedRemove ==
    /\ phase = "created"
    /\ \E k \in Keys : hashtable_remove(TRUE, Buf(k), Len(k)) /\ call' = KeyCall(k)
    /\ snapshot' = 0
    /\ UNCHANGED <<phase, script, removed_in_order, step>>

CreatedNextItem ==
    /\ phase = "created"
    /\ hashtable_next_item(TRUE, TRUE, TRUE, TRUE, TRUE)
    /\ call' = NoCall
    /\ snapshot' = 0
    /\ UNCHANGED <<phase, script, removed_in_order, step>>

NextCreate ==
    \/ CreateCall
    \/ CreatedInsert
    \/ CreatedRemove
    \/ CreatedNextItem

SpecCreate == InitCreate /\ [][NextCreate]_vars

(* ---- a client that stores keys without values --------------------------- *)
KeyOnlyInsert ==
    /\ phase = "update"
    /\ \E k \in Keys :
           /\ hashtable_insert(TRUE, Buf(k), Len(k), NullBuf, 0)
           /\ call' = KeyCall(k)
    /\ UNCHANGED scriptvars

(* hashtable_retrieve with each choice of NULL and non-NULL outputs *)
RetrieveInto ==
    /\ phase \in {"update", "traverse"}
    /\ \E k \in Keys, value \in BOOLEAN, value_size \in BOOLEAN :
           /\ hashtable_retrieve(TRUE, Buf(k), Len(k), value, value_size)
           /\ call' = [key |-> k, value |-> NullBuf, value_size |-> 0,
                       out_value |-> value, out_value_size |-> value_size]
    /\ UNCHANGED scriptvars

NextKeyOnly ==
    \/ KeyOnlyInsert
    \/ Remove
    \/ HasKey
    \/ RetrieveInto
    \/ ResetCursor
    \/ NextItem

SpecKeyOnly == Init /\ [][NextKeyOnly]_vars

(* ---- a client that passes a NULL value with a size ---------------------- *)
NullValueInsert ==
    /\ phase = "update"
    /\ \E k \in Keys, value_size \in {1} :
           /\ hashtable_insert(TRUE, Buf(k), Len(k), NullBuf, value_size)
           /\ call' = [key |-> k, value |-> NullBuf, value_size |-> value_size]
    /\ UNCHANGED scriptvars

NextNullValue ==
    \/ NullValueInsert
    \/ Insert
    \/ Remove
    \/ Retrieve

SpecNullValue == InitAnyHash /\ [][NextNullValue]_vars

(* ---- a client that passes NULL pointers --------------------------------- *)
(* calls with exactly one NULL among the table handle and the pointer the *)
(* function checks: the key, the key output or the bytes_remaining output *)
NullArgCalls ==
    {[op |-> o, table |-> t, ptr |-> ~t] :
        o \in {"insert", "remove", "retrieve", "has_key", "next_item",
               "bytes_remaining"},
        t \in BOOLEAN}
    \cup
    {[op |-> o, table |-> FALSE, ptr |-> TRUE] :
        o \in {"reset_cursor", "clear", "create"}}

InitArgs == Created /\ config_hash = "fnv1a" /\ phase = "args"

ArgsInsert == phase = "args" /\ MixedInsert

ArgsRemove == phase = "args" /\ MixedRemove

ArgsNextItem == phase = "args" /\ MixedNextItem

ArgsResetCursor ==
    /\ phase \in {"args", "rejected"}
    /\ hashtable_reset_cursor(TRUE)
    /\ call' = NoCall
    /\ phase' = "args"
    /\ UNCHANGED runvars

NullArgCall ==
    /\ phase = "args"
    /\ \E c \in NullArgCalls :
         LET k == KeyPool[1]
             key == IF c.ptr THEN Buf(k) ELSE NullBuf
         IN  /\ call' = c
             /\ \/ c.op = "insert"
                      /\ hashtable_insert(c.table, key, Len(k), NullBuf, 0)
                \/ c.op = "remove" /\ hashtable_remove(c.table, key, Len(k))
                \/ c.op = "retrieve"
                      /\ hashtable_retrieve(c.table, key, Len(k), TRUE, TRUE)
                \/ c.op = "has_key" /\ hashtable_has_key(c.table, key, Len(k))
                \/ c.op = "next_item"
                      /\ hashtable_next_item(c.table, c.ptr, TRUE, TRUE, TRUE)
                \/ c.op = "bytes_remaining"
                      /\ hashtable_bytes_remaining(c.table, c.ptr)
                \/ c.op = "reset_cursor" /\ hashtable_reset_cursor(c.table)
                \/ c.op = "clear" /\ hashtable_clear(c.table)
                \/ c.op = "create"
                      /\ hashtable_create(c.table,
                                          SuppliedConfig("fnv1a", NumBuckets),
                                          HASHTABLE_MIN_BUFFER_SIZE(NumBuckets)
                                             + ArenaBytes)
    /\ phase' = "rejected"
    /\ UNCHANGED runvars

NextArgs ==
    \/ ArgsInsert
    \/ ArgsRemove
    \/ ArgsNextItem
    \/ ArgsResetCursor
    \/ NullArgCall

SpecArgs == InitArgs /\ [][NextArgs]_vars

(* ---- a client that passes a key size of 0 ------------------------------- *)
ZeroKeySizeCall ==
    /\ phase = "args"
    /\ \E k \in Keys, o \in {"insert", "remove", "retrieve", "has_key"} :
         /\ call' = [op |-> o, key |-> k, key_size |-> 0]
         /\ \/ o = "insert" /\ hashtable_insert(TRUE, Buf(k), 0, NullBuf, 0)
            \/ o = "remove" /\ hashtable_remove(TRUE, Buf(k), 0)
            \/ o = "retrieve" /\ hashtable_retrieve(TRUE, Buf(k), 0, TRUE, TRUE)
            \/ o = "has_key" /\ hashtable_has_key(TRUE, Buf(k), 0)
    /\ phase' = "rejected"
    /\ UNCHANGED runvars

NextZeroKey ==
    \/ ArgsInsert
    \/ ArgsRemove
    \/ ArgsNextItem
    \/ ArgsResetCursor
    \/ ZeroKeySizeCall

SpecZeroKey == InitArgs /\ [][NextZeroKey]_vars

(* ---- a client that looks at its output variables after every call ------- *)
ArgsRetrieve ==
    /\ phase = "args"
    /\ \E k \in Keys : hashtable_retrieve(TRUE, Buf(k), Len(k), TRUE, TRUE)
                        /\ call' = KeyCall(k)
    /\ UNCHANGED scriptvars

NextOutputs ==
    \/ ArgsInsert
    \/ ArgsRemove
    \/ ArgsRetrieve
    \/ ArgsNextItem
    \/ ArgsResetCursor
    \/ NullArgCall

SpecOutputs == InitArgs /\ [][NextOutputs]_vars

(* ---- a client that asks for the default configuration ------------------- *)
(* buffer sizes: small ones, those around the size whose 12% is the size  *)
(* of an array of HASHTABLE_MIN_ARRAY_COUNT slots, those whose array      *)
(* count reaches 2^32, and those whose product with 12 reaches 2^64       *)
SizeBases ==
    {<<0, 0, 0, 0>>, <<1400, 0, 0, 0>>, <<21752, 21845, 133, 0>>,
     <<21829, 21845, 21845, 5461>>, <<65504, 65535, 65535, 65535>>}

BufferSizeSamples == {AddLimbs(b, o) : b \in SizeBases, o \in 0..MaxSizeOffset}

InitConfig == Created /\ config_hash = "fnv1a" /\ phase = "config"

(* hashtable_default_config(config, buffer_size): cfg says that config is *)
(* not NULL; out holds the config the caller reads afterwards             *)
DefaultConfigCall ==
    /\ phase = "config"
    /\ \E cfg \in BOOLEAN, buffer_size \in BufferSizeSamples :
         /\ call' = [config |-> cfg, size |-> buffer_size]
         /\ IF ~cfg
            THEN Invalid("default_config", "NULL pointer passed to function", FALSE)
            ELSE Query("default_config", 0,
                       [hash |-> "fnv1a",
                        array_count |-> DefaultArrayCount(buffer_size)])
    /\ UNCHANGED scriptvars

SpecConfig == InitConfig /\ [][DefaultConfigCall]_vars

(* ---- a client that calls the default hash function ---------------------- *)
HashBytes == {0, 97, 127, 128, 255}

RECURSIVE ByteStrings(_)
ByteStrings(n) ==
    IF n = 0 THEN {<<>>}
    ELSE ByteStrings(n - 1) \cup
         {Append(b, c) : b \in {x \in ByteStrings(n - 1) : Len(x) = n - 1},
                         c \in HashBytes}

InitHash == Created /\ config_hash = "fnv1a" /\ phase = "hash"

(* table->config.hash(data, size) with the default hash function *)
HashCall ==
    /\ phase = "hash"
    /\ \E data \in ByteStrings(MaxHashLen) :
         /\ call' = [data |-> data, size |-> Len(data)]
         /\ Query("hash", 0, [hash |-> _fnv1a_hash(data, Len(data))])
    /\ UNCHANGED scriptvars

SpecHash == InitHash /\ [][HashCall]_vars

(* ---- a client that fills lists of three records and empties them -------- *)
(* the supplied hash function sends every key to slot 0 *)
InitLists ==
    /\ CreatedOver(HASHTABLE_MIN_BUFFER_SIZE(NumBuckets) + ListArenaBytes)
    /\ config_hash = "zero"
    /\ phase = "lists"

(* no value, or a value of one byte *)
ListValueArgs == {<<NullBuf, 0>>, <<Buf(ValuePool[1]), Len(ValuePool[1])>>}

ListInsert ==
    /\ \E k \in ListKeys, va \in ListValueArgs :
           /\ hashtable_insert(TRUE, Buf(k), Len(k), va[1], va[2])
           /\ call' = [key |-> k, value |-> va[1], value_size |-> va[2]]
    /\ UNCHANGED scriptvars

ListRemove ==
    /\ \E k \in ListKeys : hashtable_remove(TRUE, Buf(k), Len(k)) /\ call' = KeyCall(k)
    /\ UNCHANGED scriptvars

NextLists ==
    \/ ListInsert
    \/ ListRemove

SpecLists == InitLists /\ [][NextLists]_vars

(* ---- a client that traverses lists of several records ------------------ *)
(* it updates the table, then resets the cursor once and calls next_item  *)
(* until the traversal ends, for either hash function                     *)
InitOrder ==
    /\ CreatedOver(HASHTABLE_MIN_BUFFER_SIZE(NumBuckets) + ListArenaBytes)
    /\ phase = "update"

OrderInsert ==
    /\ phase = "update"
    /\ \E k \in Keys, va \in ListValueArgs :
           /\ hashtable_insert(TRUE, Buf(k), Len(k), va[1], va[2])
           /\ call' = [key |-> k, value |-> va[1], value_size |-> va[2]]
    /\ UNCHANGED scriptvars

OrderResetCursor ==
    /\ phase = "update"
    /\ hashtable_reset_cursor(TRUE)
    /\ call' = NoCall
    /\ phase' = "traverse"
    /\ UNCHANGED runvars

(* the client stops when the traversal has ended *)
OrderNextItem ==
    /\ phase = "traverse"
    /\ hashtable_next_item(TRUE, TRUE, TRUE, TRUE, TRUE)
    /\ call' = NoCall
    /\ phase' = IF ret' = 0 THEN "traverse" ELSE "done"
    /\ UNCHANGED runvars

NextOrder ==
    \/ OrderInsert
    \/ Remove
    \/ OrderResetCursor
    \/ OrderNextItem

SpecOrder == InitOrder /\ [][NextOrder]_vars

(* ---- the loops of the library, one iteration at a time ------------------ *)
(* the client fills and empties the table, then makes one call whose loop  *)
(* is followed pass by pass; `call` holds the local variables of the call  *)
InitLoops ==
    /\ CreatedOver(HASHTABLE_MIN_BUFFER_SIZE(NumBuckets) + ListArenaBytes)
    /\ phase = "lists"

LoopInsert == phase = "lists" /\ MixedInsert

LoopRemove == phase = "lists" /\ MixedRemove

(* the sizes _store_keyval_pair asks the free list for *)
LoopSizes == {SizeofKeyvalPair + Len(k) + n : k \in ListKeys, n \in 0..1}

(* the call is entered: the local variables are initialised *)
LoopEnter ==
    /\ phase = "lists"
    /\ \/ \E k \in ListKeys :
            /\ op' = "_search_list_by_key"
            /\ call' = [key |-> k,
                        curr |-> table[_get_table_list_by_key(k, Len(k))].head,
                        prev |-> NULL, passes |-> 0]
       \/ \E size_required \in LoopSizes :
            /\ op' = "_search_free_list"
            /\ call' = [size_required |-> size_required,
                        curr |-> freelist.head, prev |-> NULL, passes |-> 0]
       \/ /\ op' = "hashtable_next_item"
          /\ call' = [passes |-> 0]
    /\ phase' = "running"
    /\ ret' = UNTOUCHED
    /\ UNCHANGED <<heapvars, cursorvars, configvars, error_msg, out, path,
                   emitted, clean, runvars>>

(* a pass that goes round again without moving when the key sizes differ *)
SearchPass_stays_on_other_size(f) ==
    IF f.curr = NULL THEN [returned |-> TRUE, ret |-> NULL, frame |-> f]
    ELSE IF KeyMatches(Heap, f.curr, f.key, Len(f.key))
    THEN [returned |-> TRUE, ret |-> f.curr, frame |-> f]
    ELSE IF pairs[f.curr].key_size # Len(f.key)
    THEN [returned |-> FALSE, ret |-> UNTOUCHED, frame |-> f]
    ELSE [returned |-> FALSE, ret |-> UNTOUCHED,
          frame |-> [f EXCEPT !.prev = f.curr, !.curr = pairs[f.curr].next,
                              !.passes = @ + 1]]

(* the loop test and one pass of the while loop of _search_list_by_key *)
SearchPass(f) ==
    IF f.curr = NULL THEN [returned |-> TRUE, ret |-> NULL, frame |-> f]
    ELSE IF KeyMatches(Heap, f.curr, f.key, Len(f.key))
    THEN [returned |-> TRUE, ret |-> f.curr, frame |-> f]
    ELSE [returned |-> FALSE, ret |-> UNTOUCHED,
          frame |-> [f EXCEPT !.prev = f.curr, !.curr = pairs[f.curr].next,
                              !.passes = @ + 1]]

(* the loop test and one pass of the while loop of _search_free_list; the *)
(* record that fits is unlinked by the same pass                          *)
FreePass(f) ==
    IF f.curr = NULL
    THEN [returned |-> TRUE, ret |-> NULL, frame |-> f, heap |-> Heap]
    ELSE IF Fits(SizeofKeyvalPair + pairs[f.curr].key_size + pairs[f.curr].value_size,
                 f.size_required)
    THEN [returned |-> TRUE, ret |-> f.curr, frame |-> f,
          heap |-> FreeListLoop(Heap, f.curr, f.prev, f.size_required).heap]
    ELSE [returned |-> FALSE, ret |-> UNTOUCHED, heap |-> Heap,
          frame |-> [f EXCEPT !.prev = f.curr, !.curr = pairs[f.curr].next,
                              !.passes = @ + 1]]

SearchLoopPass ==
    /\ op = "_search_list_by_key"
    /\ \E r \in {SearchPass(call)} :
         /\ call' = r.frame /\ ret' = r.ret
         /\ phase' = IF r.returned THEN "returned" ELSE "running"
    /\ UNCHANGED <<heapvars, cursorvars>>

FreeLoopPass ==
    /\ op = "_search_free_list"
    /\ \E r \in {FreePass(call)} :
         /\ call' = r.frame /\ ret' = r.ret
         /\ phase' = IF r.returned THEN "returned" ELSE "running"
         /\ SetHeap(r.heap)
    /\ UNCHANGED cursorvars

(* the loop test and one pass of the while loop of hashtable_next_item, *)
(* entered with the limit flag clear                                    *)
NextItemLoopPass ==
    /\ op = "hashtable_next_item"
    /\ IF cursor_array_index < array_count /\ cursor_items_traversed < entry_count
       THEN LET item == IF cursor_item = NULL
                        THEN table[cursor_array_index].head ELSE cursor_item
            IN  IF item # NULL
                THEN /\ cursor_item' = pairs[item].next
                     /\ cursor_array_index' = IF pairs[item].next = NULL
                                              THEN cursor_array_index + 1
                                              ELSE cursor_array_index
                     /\ cursor_items_traversed' = cursor_items_traversed + 1
                     /\ ret' = 0 /\ phase' = "returned"
                     /\ call' = [call EXCEPT !.passes = @ + 1]
                     /\ UNCHANGED cursor_limit
                ELSE /\ cursor_item' = item
                     /\ cursor_array_index' = cursor_array_index + 1
                     /\ ret' = UNTOUCHED /\ phase' = "running"
                     /\ call' = [call EXCEPT !.passes = @ + 1]
                     /\ UNCHANGED <<cursor_items_traversed, cursor_limit>>
       ELSE /\ cursor_limit' = 1
            /\ ret' = 1 /\ phase' = "returned"
            /\ UNCHANGED <<call, cursor_array_index, cursor_item, cursor_items_traversed>>
    /\ UNCHANGED heapvars

(* the running call makes its next pass *)
LoopPass ==
    /\ phase = "running"
    /\ \/ SearchLoopPass
       \/ FreeLoopPass
       \/ NextItemLoopPass
    /\ UNCHANGED <<configvars, error_msg, op, out, path, emitted, clean, runvars>>

NextLoops ==
    \/ LoopInsert
    \/ LoopRemove
    \/ LoopEnter
    \/ LoopPass

(* a call that has been entered keeps running: nothing suspends it *)
SpecLoops == InitLoops /\ [][NextLoops]_vars /\ WF_vars(LoopPass)

(* ---- a client that queries the table in the middle of a traversal ------- *)
(* the queries are called with valid arguments and with a NULL argument *)
QueryCall ==
    /\ phase = "args"
    /\ \/ \E k \in Keys, tbl \in BOOLEAN, value \in BOOLEAN :
            /\ call' = [op |-> "retrieve", table |-> tbl, key |-> k, value |-> value]
            /\ hashtable_retrieve(tbl, Buf(k), Len(k), value, TRUE)
       \/ \E k \in Keys : \E key \in {Buf(k), NullBuf} :
            /\ call' = [op |-> "has_key", table |-> TRUE, key |-> key.bytes]
            /\ hashtable_has_key(TRUE, key, Len(k))
       \/ \E ptr \in BOOLEAN :
            /\ call' = [op |-> "bytes_remaining", table |-> TRUE, ptr |-> ptr]
            /\ hashtable_bytes_remaining(TRUE, ptr)
    /\ UNCHANGED scriptvars

NextQueries ==
    \/ ArgsInsert
    \/ ArgsRemove
    \/ ArgsNextItem
    \/ ArgsResetCursor
    \/ QueryCall

SpecQueries == InitArgs /\ [][NextQueries]_vars

(* ---- a client that clears the table -------------------------------------- *)
(* it clears a table whose entry_count is at most NumKeys, so that the *)
(* count stays below 2 * NumKeys                                        *)
ClearCall ==
    /\ phase = "args"
    /\ entry_count <= NumKeys
    /\ hashtable_clear(TRUE)
    /\ call' = NoCall
    /\ UNCHANGED scriptvars

NextClear ==
    \/ ArgsInsert
    \/ ArgsRemove
    \/ ArgsNextItem
    \/ ArgsResetCursor
    \/ ClearCall

SpecClear == InitArgs /\ [][NextClear]_vars

(* ---- a client that traverses the keys only ------------------------------- *)
(* as test_hashtable_next_item_only_keys does, but over records that may *)
(* hold a value: hashtable_next_item(&table, &key, &key_size, NULL, NULL) *)
KeysNextItem ==
    /\ phase = "traverse"
    /\ hashtable_next_item(TRUE, TRUE, TRUE, FALSE, FALSE)
    /\ call' = [outputs |-> {"key", "key_size"}]
    /\ phase' = IF ret' = 0 THEN "traverse"
                ELSE IF ret' = 1 THEN "update" ELSE "killed"
    /\ UNCHANGED runvars

NextOnlyKeys ==
    \/ Insert
    \/ Remove
    \/ ResetCursor
    \/ KeysNextItem

SpecOnlyKeys == Init /\ [][NextOnlyKeys]_vars

(* ---- a client that passes a NULL value with a very large value_size ------ *)
(* hashtable_size_t is size_t: value sizes from 2^64 - 32 up to 2^64 - 1, *)
(* and 2^63                                                               *)
HugeValueSizes ==
    {AddLimbs(<<65504, 65535, 65535, 65535>>, o) : o \in 0..MaxSizeOffset}
        \cup {<<0, 0, 0, 32768>>}

(* sizeof(_keyval_pair_t) + key_size + value_size in the width of size_t *)
SizeRequired(key_size, value_size) ==
    AddLimbs(AddLimbs(value_size, key_size), SizeofKeyvalPair)

(* _store_keyval_pair for a NULL value and a size_t value_size of 2^16 and *)
(* above: every record stored so far is smaller than a size_required of    *)
(* 2^16 and above, so the free list is searched only for a smaller one     *)
StoreHuge(H, key, key_size, value_size) ==
    LET size_required == SizeRequired(key_size, value_size)
        size_remaining == total_bytes - H.bytes_used
        found == IF LimbsAbove(size_required, 65535)
                 THEN [heap |-> H, ret |-> NULL]
                 ELSE _search_free_list(H, size_required[1])
    IN  IF found.ret = NULL /\ LimbsAbove(size_required, size_remaining)
        THEN [heap |-> H, ret |-> NULL, src |-> "none"]
        ELSE LET r == IF found.ret = NULL THEN H.bytes_used ELSE found.ret
                 H1 == IF found.ret = NULL
                       THEN [H EXCEPT !.bytes_used = @ + size_required[1]]
                       ELSE found.heap
                 new == [next |-> NULL, key_size |-> key_size,
                         value_size |-> value_size, data |-> key]
             IN  [heap |-> [H1 EXCEPT !.pairs = (r :> new) @@ @],
                  ret |-> r,
                  src |-> IF found.ret = NULL THEN "arena" ELSE "freelist"]

(* the header and the key of the record at r are written whatever        *)
(* size_required was: when they do not lie inside data[0..total_bytes)   *)
(* the stores run past the buffer, which is undefined: the call returns  *)
(* after overwriting what follows the buffer, or the process is killed   *)
OverrunOutcomes(stored, key_size) ==
    IF stored.ret # NULL /\ stored.ret + SizeofKeyvalPair + key_size > total_bytes
    THEN {"returned", "killed"}
    ELSE {"returned"}

(* hashtable_insert(&table, key, key_size, NULL, value_size) for a *)
(* value_size of 2^16 and above: larger than that of any record    *)
InsertHuge(key, key_size, value_size) ==
    LET list == _get_table_list_by_key(key, key_size)
        found == _search_list_by_key(Heap, list, key, key_size)
        H1 == IF found.pair # NULL
              THEN _remove_from_table(Heap, list, found.pair, found.prev)
              ELSE Heap
        stored == StoreHuge(H1, key, key_size, value_size)
    IN  \E r \in {LinkStored(H1, list, found.pair # NULL, stored)} :
        \E outcome \in OverrunOutcomes(stored, key_size) :
            /\ SetHeap(r.heap)
            /\ op' = "insert" /\ out' = NoOut
            /\ ret' = IF outcome = "killed" THEN UNTOUCHED ELSE r.ret
            /\ path' = [src |-> r.src, unlinked |-> r.unlinked]
            /\ clean' = FALSE
            /\ emitted' = <<>>
            /\ UNCHANGED <<cursorvars, configvars, error_msg>>

(* the client stops after this call *)
HugeInsert ==
    /\ phase = "args"
    /\ \E k \in Keys, value_size \in HugeValueSizes :
         /\ call' = [key |-> k, value |-> NullBuf, size_t_value_size |-> value_size]
         /\ IF LimbsAbove(value_size, 65535)
            THEN InsertHuge(k, Len(k), value_size)
            ELSE hashtable_insert(TRUE, Buf(k), Len(k), NullBuf, value_size[1])
    /\ phase' = "wrapped"
    /\ UNCHANGED runvars

NextSizes ==
    \/ ArgsInsert
    \/ ArgsRemove
    \/ HugeInsert

SpecSizes == InitArgs /\ [][NextSizes]_vars

(* ---- what the table holds, read off the lists --------------------------- *)
Range(f) == {f[i] : i \in DOMAIN f}

(* the records from a on, following next; fuel stops a cyclic list *)
RECURSIVE ChainFrom(_, _, _)
ChainFrom(P, a, fuel) ==
    IF a = NULL \/ fuel = 0 THEN <<>>
    ELSE <<a>> \o ChainFrom(P, P[a].next, fuel - 1)

Chain(i) == ChainFrom(pairs, table[i].head, Cardinality(DOMAIN pairs))
FreeChain == ChainFrom(pairs, freelist.head, Cardinality(DOMAIN pairs))

(* the records reachable from the head of some slot *)
Linked == UNION {Range(Chain(i)) : i \in 0..(array_count - 1)}

KeyOf(a) == SubSeq(pairs[a].data, 1, pairs[a].key_size)
ValueOf(a) ==
    SubSeq(pairs[a].data, pairs[a].key_size + 1,
           pairs[a].key_size + pairs[a].value_size)

(* the <<key, value>> pairs stored, keys compared by length and bytes; *)
(* no hash function is involved                                        *)
Contents == {<<KeyOf(a), ValueOf(a)>> : a \in Linked}
StoredKeys == {e[1] : e \in Contents}
IsMap(c) == \A e, f \in c : e[1] = f[1] => e = f
Put(c, k, v) == {e \in c : e[1] # k} \cup {<<k, v>>}
Delete(c, k) == {e \in c : e[1] # k}
BytesLeft == total_bytes - bytes_used
Footprint(a) == SizeofKeyvalPair + pairs[a].key_size + pairs[a].value_size

(* ---- C1 ----------------------------------------------------------------- *)
(* C1: the table refines a reference map, for either hash function.  Every *)
(* insert(k, v) that returns 0 makes the stored pairs the old ones with k  *)
(* mapped to v; every remove(k) returns 0 exactly when k is stored and     *)
(* then deletes k only, and otherwise returns 1 and changes nothing;       *)
(* retrieve(k) and has_key(k) answer as the stored pairs say, retrieve     *)
(* giving the stored bytes and size.  The stored pairs always form a map   *)
(* whose keys are equal only when their lengths and bytes are equal.  By   *)
(* induction the stored pairs equal the reference map of any history in    *)
(* which every insert returned 0.                                          *)
C1_InsertStep ==
    ret' = 0 => Contents' = Put(Contents, call'.key, call'.value.bytes)

C1_RemoveStep ==
    /\ (ret' = 0) = (call'.key \in StoredKeys)
    /\ ret' \in {0, 1}
    /\ Contents' = Delete(Contents, call'.key)

C1_RetrieveStep ==
    IF call'.key \in StoredKeys
    THEN /\ ret' = 0
         /\ \E e \in Contents :
               /\ e[1] = call'.key
               /\ out'.value_size = Len(e[2])
               /\ Len(e[2]) > 0 => Deref(pairs', out'.value, Len(e[2])) = e[2]
    ELSE ret' = 1

C1_HasKeyStep == ret' = (IF call'.key \in StoredKeys THEN 1 ELSE 0)

C2_FailedInsertChangesNothing ==
    [][(op' = "insert" /\ ret' # 0)
          => /\ Contents' = Contents
             /\ entry_count' = entry_count
             /\ array_slots_used' = array_slots_used
             /\ BytesLeft' = BytesLeft]_vars


RECURSIVE SumLen(_)
SumLen(i) == IF i >= array_count THEN 0 ELSE Len(Chain(i)) + SumLen(i + 1)

SlotsWithHead == {i \in 0..(array_count - 1) : table[i].head # NULL}

(* C5: array_slots_used is the number of slots whose head is not NULL; a  *)
(* call raises it only by one and only when an insert links a record into *)
(* an empty list, and lowers it only by one and only when a remove, or    *)
(* the unlink inside an insert, empties a list                            *)
C5_SlotsUsed ==
    [][/\ array_slots_used = Cardinality(SlotsWithHead)
       /\ array_slots_used' = Cardinality(SlotsWithHead')
       /\ array_slots_used' > array_slots_used
            => /\ op' = "insert" /\ ret' = 0
               /\ array_slots_used' = array_slots_used + 1
               /\ \E i \in SlotsWithHead' : i \notin SlotsWithHead
       /\ array_slots_used' < array_slots_used
            => /\ op' = "remove" \/ (op' = "insert" /\ path'.unlinked)
               /\ array_slots_used' = array_slots_used - 1
               /\ \E i \in SlotsWithHead : i \notin SlotsWithHead']_vars

(* an insert has just linked a second record into a list that held one *)
C5_Witness ==
    /\ op = "insert" /\ ret = 0
    /\ array_slots_used = 1 /\ entry_count = 2


(* ---- C6 ----------------------------------------------------------------- *)
(* the bytes an insert with the arguments of the coming call asks for *)
SizeAsked == SizeofKeyvalPair + Len(call'.key) + call'.value_size
FreeFits == \E a \in Range(FreeChain) : Footprint(a) >= SizeAsked

C7_NoSpaceKeepsBytes ==
    [][(op' = "insert" /\ ret' = 1) => BytesLeft' = BytesLeft]_vars

(* an insert has just returned 1 after unlinking the record it was to replace *)
C7_Witness == op = "insert" /\ ret = 1 /\ path.unlinked /\ BytesLeft > 0

(* ---- C8 ----------------------------------------------------------------- *)
(* C8: no call lowers bytes_used; only an insert that returns 0 and carves *)
(* its record from the data block raises it; a remove, an insert served    *)
(* from the free list and an insert that updates in place leave it alone   *)
C8_BytesUsedMonotonic ==
    [][/\ bytes_used' >= bytes_used
       /\ bytes_used' > bytes_used
            => /\ op' = "insert" /\ ret' = 0 /\ path'.src = "arena"
               /\ bytes_used \notin DOMAIN pairs
               /\ bytes_used \in Linked'
       /\ op' = "remove" => bytes_used' = bytes_used
       /\ (op' = "insert" /\ path'.src \in {"freelist", "inplace"})
            => bytes_used' = bytes_used]_vars

(* an insert has just taken its record from the free list *)
C8_Witness ==
    /\ op = "insert" /\ ret = 0 /\ path.src = "freelist"
    /\ bytes_used > 0


(* ---- C9 ----------------------------------------------------------------- *)
(* C9 as stated: whatever the order in which the records of S were        *)
(* removed, every reinsertion in the original insertion order returns 0   *)
(* and the bytes remaining are those right after S was first inserted     *)
C9_AnyRemovalOrder ==
    step > 0 => /\ ret = 0
                /\ BytesLeft = snapshot

(* C9 amended: when the records of S were removed in their insertion      *)
(* order, every reinsertion in that order returns 0, takes its record     *)
(* from the free list, and leaves the bytes remaining as they were right  *)
(* after S was first inserted                                             *)
C9_InOrderRemoval ==
    (removed_in_order /\ step > 0)
        => /\ ret = 0
           /\ path.src = "freelist"
           /\ BytesLeft = snapshot

(* two records of different sizes were removed in insertion order and both *)
(* have been reinserted                                                    *)
C9_Witness ==
    /\ phase = "s_done" /\ removed_in_order
    /\ step = 2
    /\ script[1].value_size # script[2].value_size

(* ---- C10 ---------------------------------------------------------------- *)
(* what hashtable_retrieve(k) returns and gives, the table's memory being *)
(* H: the return value, *value_size and the bytes at *value              *)
RetrievedValue(H, k) ==
    LET r == RetrieveOut(H, k, Len(k), TRUE, TRUE)
    IN  [ret |-> r.ret,
         value_size |-> r.out.value_size,
         value |-> IF r.ret = 0 /\ r.out.value_size > 0
                   THEN Deref(H.pairs, r.out.value, r.out.value_size) ELSE <<>>]

LargerOverwrite ==
    /\ op' = "insert" /\ ret' = 0
    /\ \E e \in Contents : e[1] = call'.key /\ Len(e[2]) < call'.value_size

(* the record that holds the key of the coming call *)
RecordOfCall == CHOOSE a \in Linked : KeyOf(a) = call'.key

(* C11 as stated: a successful insert of a stored key with a larger value *)
(* strictly lowers the bytes remaining, and a retrieve right after it     *)
(* gives the new value bytes and size                                     *)
C11_LargerOverwriteCarves ==
    [][LargerOverwrite
          => /\ BytesLeft' < BytesLeft
             /\ \A k \in Keys : k = call'.key
                   => RetrievedValue(Heap', k) =
                         [ret |-> 0, value_size |-> call'.value_size,
                          value |-> call'.value.bytes]]_vars

(* C11 amended: a successful insert of a stored key with a larger value   *)
(* puts the old record on the free list; when a record of the free list   *)
(* is large enough for the new one the bytes remaining stay as they were, *)
(* otherwise they drop by exactly the header, key and new value size; a   *)
(* retrieve right after it gives the new value bytes and size             *)
C11_LargerOverwrite ==
    [][LargerOverwrite
          => /\ RecordOfCall \in Range(FreeChain')
             /\ BytesLeft' = (IF FreeFits THEN BytesLeft ELSE BytesLeft - SizeAsked)
             /\ \A k \in Keys : k = call'.key
                   => RetrievedValue(Heap', k) =
                         [ret |-> 0, value_size |-> call'.value_size,
                          value |-> call'.value.bytes]]_vars

(* an insert has just replaced a stored value by a longer one, the new *)
(* record taken from the free list                                     *)
C11_Witness ==
    /\ op = "insert" /\ ret = 0
    /\ path.unlinked /\ path.src = "freelist"

(* ---- C12 ---------------------------------------------------------------- *)
(* C12: an insert that returns 0 for a stored key leaves entry_count and  *)
(* array_slots_used as they were, whatever the new value size; and when   *)
(* the table holds the one record of a single insert into the new table,  *)
(* the same insert again leaves entry_count at 1 and bytes_used unchanged *)
C12_OverwriteKeepsCounts ==
    [][(op' = "insert" /\ ret' = 0 /\ call'.key \in StoredKeys)
          => /\ entry_count' = entry_count
             /\ array_slots_used' = array_slots_used
             /\ (/\ op = "insert" /\ call' = call
                 /\ DOMAIN pairs = {0} /\ bytes_used = Footprint(0))
                   => /\ entry_count' = 1
                      /\ bytes_used' = bytes_used]_vars

(* an insert has just replaced the only record of its list by a larger one *)
C12_Witness ==
    /\ op = "insert" /\ ret = 0 /\ path.unlinked
    /\ array_slots_used = entry_count

C14_NextItemReadsLinked ==
    (op = "next_item" /\ ret = 0)
        => /\ (out.key - SizeofKeyvalPair) \in Linked
           /\ (out.key - SizeofKeyvalPair) \notin Range(FreeChain)

(* ---- C15 ---------------------------------------------------------------- *)
(* C15: when next_item returns 1 the cursor is at its limit; from then on *)
(* every call but reset_cursor leaves it there, whatever it inserts or    *)
(* removes, and every next_item returns 1, gives nothing and leaves the   *)
(* cursor alone; reset_cursor puts the cursor on the head of slot 0 with  *)
(* nothing traversed and the limit cleared                                *)
C15_StickyEnd ==
    [][/\ (op' = "next_item" /\ ret' = 1) => cursor_limit' = 1
       /\ (cursor_limit = 1 /\ op' # "reset_cursor") => cursor_limit' = 1
       /\ (cursor_limit = 1 /\ op' = "next_item")
             => /\ ret' = 1
                /\ out' = NoOut
                /\ UNCHANGED cursorvars
       /\ op' = "reset_cursor"
             => /\ cursor_limit' = 0
                /\ cursor_array_index' = 0
                /\ cursor_items_traversed' = 0
                /\ cursor_item' = table[0].head]_vars

(* next_item has just returned 1 again although an insert after the end *)
(* of the traversal left a record that was never given                  *)
C15_Witness ==
    /\ op = "next_item" /\ ret = 1
    /\ cursor_limit = 1
    /\ cursor_items_traversed < entry_count
    /\ cursor_array_index < array_count


(* ---- C16 ---------------------------------------------------------------- *)
(* C16: hashtable_create returns -1 for a null table handle and for a     *)
(* supplied config whose hash is null or whose array count is 0;          *)
(* otherwise it returns 1 exactly when buffer_size is smaller than        *)
(* HASHTABLE_MIN_BUFFER_SIZE of the array count, and 0 in every other     *)
(* case                                                                   *)
CreateReturned == op = "create" /\ "buffer_size" \in DOMAIN call

C17_CreateInitialises ==
    /\ (CreateReturned /\ ret = 0)
          => /\ DOMAIN table = 0..(array_count - 1)
             /\ array_count = CountOf(call.config, call.buffer_size)
             /\ \A i \in DOMAIN table : table[i] = [head |-> NULL, tail |-> NULL]
             /\ entry_count = 0
             /\ array_slots_used = 0
             /\ freelist = [head |-> NULL, tail |-> NULL]
             /\ bytes_used = 0
             /\ BytesLeft = call.buffer_size - HASHTABLE_MIN_BUFFER_SIZE(array_count)
             /\ cursor_array_index = 0
             /\ cursor_item = NULL
             /\ cursor_items_traversed = 0
             /\ cursor_limit = 0
    /\ (op = "insert" /\ total_bytes = 0) => ret = 1

(* a create has just returned 0 over the buffer of a table that held a *)
(* record, had given it, and had bytes in use                          *)
C17_Witness ==
    /\ CreateReturned /\ ret = 0
    /\ snapshot > 0
    /\ total_bytes > 0


(* ---- C18 ---------------------------------------------------------------- *)
(* times the traversal has given key k *)
TimesGiven(k) == Cardinality({i \in 1..Len(emitted) : emitted[i][1] = k})

(* C18: an insert with a NULL value and value_size 0 returns 0 whenever   *)
(* the key is stored, a freed record is large enough or the bytes         *)
(* remaining hold the header and the key, and the key is then stored with *)
(* value_size 0; for a key stored so, has_key returns 1, retrieve returns *)
(* 0 whichever outputs are NULL and writes 0 to a value_size output, and  *)
(* a traversal that has ended gave the key exactly once                   *)
C18_KeyOnlyEntries ==
    /\ [][(op' = "insert" /\ call'.value.null /\ call'.value_size = 0
              /\ (call'.key \in StoredKeys \/ FreeFits \/ BytesLeft >= SizeAsked))
             => ret' = 0]_vars
    /\ [](/\ (op = "insert" /\ ret = 0 /\ call.value.null /\ call.value_size = 0)
               => \E a \in Linked : KeyOf(a) = call.key /\ pairs[a].value_size = 0
          /\ \A a \in Linked :
               pairs[a].value_size = 0 =>
                  /\ (op = "has_key" /\ call.key = KeyOf(a)) => ret = 1
                  /\ (op = "retrieve" /\ call.key = KeyOf(a))
                        => /\ ret = 0
                           /\ "out_value_size" \in DOMAIN call
                                 => out.value_size = IF call.out_value_size
                                                     THEN 0 ELSE UNTOUCHED
                  /\ (clean /\ op = "next_item" /\ ret = 1)
                        => TimesGiven(KeyOf(a)) = 1)

(* a retrieve with a NULL value output and a value_size output has just *)
(* returned 0 and size 0 for one of two keys stored without values      *)
C18_Witness ==
    /\ op = "retrieve" /\ ret = 0
    /\ "out_value_size" \in DOMAIN call
    /\ call.out_value_size /\ ~call.out_value
    /\ out.value_size = 0
    /\ entry_count = 2
    /\ \A a \in Linked : pairs[a].value_size = 0


(* ---- C19 ---------------------------------------------------------------- *)
(* C19: an insert with a NULL value and a value_size above 0 does not     *)
(* return 0 and leaves the records, the lists and the counts as they were *)
C19_NullValueNeedsZeroSize ==
    [][(op' = "insert" /\ call'.value.null /\ call'.value_size > 0)
          => /\ ret' # 0
             /\ pairs' = pairs
             /\ table' = table
             /\ entry_count' = entry_count
             /\ bytes_used' = bytes_used]_vars


(* ---- C20 ---------------------------------------------------------------- *)
(* C20: a call of create, insert, remove, retrieve, has_key, next_item,   *)
(* bytes_remaining, reset_cursor or clear with a NULL table, a call of    *)
(* insert, remove, retrieve or has_key with a NULL key, a call of         *)
(* next_item with a NULL key output and a call of bytes_remaining with a  *)
(* NULL output return -1 and leave the slots, the records, the free list, *)
(* the counts, the cursor and the configuration as they were              *)
C20_NullArgsRejected ==
    [][("ptr" \in DOMAIN call')
          => /\ op' = call'.op
             /\ ret' = -1
             /\ UNCHANGED <<heapvars, cursorvars, configvars>>]_vars

(* next_item with a NULL key output has just returned -1 in the middle of *)
(* a traversal of two records                                             *)
C20_Witness ==
    /\ "ptr" \in DOMAIN call
    /\ op = "next_item" /\ ret = -1
    /\ call.table /\ ~call.ptr
    /\ entry_count = 2
    /\ cursor_items_traversed = 1


(* ---- C21 ---------------------------------------------------------------- *)
(* C21: insert, remove, retrieve and has_key called with a key_size of 0  *)
(* return -1 and leave the slots, the records, the free list, the counts  *)
(* and the cursor as they were                                            *)
C21_ZeroKeySizeRejected ==
    [][("key_size" \in DOMAIN call' /\ call'.key_size = 0)
          => /\ ret' = -1
             /\ UNCHANGED <<heapvars, cursorvars, configvars>>]_vars


(* ---- C22 ---------------------------------------------------------------- *)
(* C22: a call that does not return -1 leaves the error message as it    *)
(* was, a next_item that returns 1 at the end of a traversal included    *)
C22_MessageOnlyOnInvalid ==
    [][ret' # -1 => error_msg' = error_msg]_vars

(* ---- C23 ---------------------------------------------------------------- *)
(* C23: after a retrieve, a next_item or a bytes_remaining that did not  *)
(* return 0, none of the caller's output variables has been written      *)
C23_NoOutputOnFailure ==
    (op \in {"retrieve", "next_item", "bytes_remaining"} /\ ret # 0)
        => out = NoOut

(* a retrieve has just missed its key in a table that holds another key *)
C23_Witness ==
    /\ op = "retrieve" /\ ret = 1
    /\ entry_count > 0
    /\ out = NoOut


(* ---- C24 ---------------------------------------------------------------- *)
(* the array count of the claim, computed without wrap-around: one limb  *)
(* more than a size_t holds the product with 12                          *)
ExactArrayCount(buffer_size) ==
    LET share == DivLimbs(MulLimbs(buffer_size \o <<0>>, 12, 0), 100).q
    IN  IF LimbsAbove(share, (10 * SizeofKeyvalPairList) + SizeofListTable)
        THEN AddLimbs(DivLimbs(SubLimbs(share, SizeofListTable),
                               SizeofKeyvalPairList).q, 1)
        ELSE <<10, 0, 0, 0, 0>>

(* C24: the default configuration has the FNV-1a hash and an array count *)
(* of at least 10 for every buffer_size: 10 when 12% of buffer_size does *)
(* not exceed the size of an array of 10 slots, and otherwise            *)
(* floor((buffer_size * 12 / 100 - 8) / 16) + 1                          *)
C24_DefaultArrayCount ==
    (op = "default_config" /\ ret = 0)
        => /\ out.hash = "fnv1a"
           /\ out.array_count[2] > 0 \/ out.array_count[1] >= 10
           /\ out.array_count \o <<0, 0, 0>> = ExactArrayCount(call.size)


(* ---- C25 ---------------------------------------------------------------- *)
(* 32-bit FNV-1a: from 0x811c9dc5, for each byte b as a value 0..255,    *)
(* hash = ((hash XOR b) * 0x01000193) mod 2^32                           *)
RECURSIVE ReferenceFnv1a(_, _)
ReferenceFnv1a(hash, bytes) ==
    IF bytes = <<>> THEN hash
    ELSE ReferenceFnv1a(
             MulFnvPrime([hi |-> hash.hi, lo |-> BitXor(hash.lo, Head(bytes), 16)]),
             Tail(bytes))

(* C25: for every byte string, bytes of 0x80 and above included, the     *)
(* default hash function returns the 32-bit FNV-1a hash of the string    *)
C25_Fnv1aReference ==
    op = "hash"
        => out.hash = ReferenceFnv1a([hi |-> 33052, lo |-> 40389], call.data)


(* ---- C26 ---------------------------------------------------------------- *)
(* the list of each slot, and the free list as the last one *)
AllLists ==
    [i \in 0..array_count |-> IF i < array_count THEN Chain(i) ELSE FreeChain]

(* C26: in every reachable state, so after every create, insert and      *)
(* remove, every record carved from the data block is in exactly one of  *)
(* the slot lists and the free list, and once in it; every list ends     *)
(* with a record whose next is NULL                                      *)
C26_OneListPerRecord ==
    /\ \A i \in DOMAIN AllLists :
          /\ Cardinality(Range(AllLists[i])) = Len(AllLists[i])
          /\ AllLists[i] # <<>> => pairs[AllLists[i][Len(AllLists[i])]].next = NULL
    /\ \A i, j \in DOMAIN AllLists :
          i # j => Range(AllLists[i]) \cap Range(AllLists[j]) = {}
    /\ UNION {Range(AllLists[i]) : i \in DOMAIN AllLists} = DOMAIN pairs

(* a remove has just moved the middle one of three records of a list to *)
(* the free list                                                        *)
C26_Witness ==
    /\ op = "remove" /\ ret = 0
    /\ Len(Chain(0)) = 2 /\ Len(FreeChain) = 1
    /\ Chain(0)[1] < FreeChain[1] /\ FreeChain[1] < Chain(0)[2]

(* ---- the bytes of the arena each record occupies ------------------------ *)
(* _store_keyval_pair carves a record at data[bytes_used] and adds its size *)
(* to bytes_used, so the bytes carved for the record at offset a end where  *)
(* the next record carved after it starts, or at bytes_used for the last    *)
CarvedEnd(a) ==
    LET later == {b \in DOMAIN pairs \cup {bytes_used} : b > a}
    IN  IF later = {} THEN a
        ELSE CHOOSE b \in later : \A c \in later : b <= c

(* C27: for every record, live or on the free list, the header plus        *)
(* key_size plus value_size is at most the bytes carved for it, the spans  *)
(* of distinct records do not overlap, all of them lie inside              *)
(* [0, bytes_used), and bytes_used never exceeds total_bytes               *)
C27_FootprintWithinCarved ==
    /\ bytes_used <= total_bytes
    /\ \A a \in DOMAIN pairs :
          /\ 0 <= a
          /\ a + Footprint(a) <= CarvedEnd(a)
          /\ CarvedEnd(a) <= bytes_used
          /\ Len(pairs[a].data) = pairs[a].key_size + pairs[a].value_size
    /\ \A a, b \in DOMAIN pairs :
          a < b => a + Footprint(a) <= b

(* a record carved for a longer key and a value was freed and handed out *)
(* again for a request smaller than the bytes carved for it              *)
C27_Witness ==
    /\ op = "insert" /\ ret = 0 /\ path.src = "freelist"
    /\ \E a \in Range(Chain(0)) :
          /\ SubSeq(pairs[a].data, 1, pairs[a].key_size) = call.key
          /\ a + Footprint(a) < CarvedEnd(a)
    /\ FreeChain # <<>>


(* C28: no two records linked in the lists of the array hold the same key  *)
(* (same length, same bytes), and every record linked in the list of slot  *)
(* i has a key whose hash modulo array_count is i                          *)
C28_ChainsKeyedByHash ==
    /\ \A a, b \in Linked : a # b => KeyOf(a) # KeyOf(b)
    /\ \A i \in 0..(array_count - 1) : \A a \in Range(Chain(i)) :
          Mod32(CallHash(config_hash, KeyOf(a), pairs[a].key_size), array_count) = i

(* both slots hold a record and an insert has just found its key again *)
C28_Witness ==
    /\ op = "insert" /\ ret = 0 /\ path.src = "inplace"
    /\ \A i \in 0..(array_count - 1) : Len(Chain(i)) = 1
    /\ KeyOf(Chain(1)[1]) = call.key


(* ---- the free list as a queue ------------------------------------------- *)
(* the sequence s without its i-th element *)
SeqWithout(s, i) ==
    [j \in 1..(Len(s) - 1) |-> IF j < i THEN s[j] ELSE s[j + 1]]

(* the position in F of the first record whose header, key and value take *)
(* at least size_required bytes; 0 when F holds none                       *)
FirstFit(F, size_required) ==
    LET fits == {i \in 1..Len(F) : Footprint(F[i]) >= size_required}
    IN  IF fits = {} THEN 0
        ELSE CHOOSE i \in fits : \A j \in fits : i <= j

(* the key bytes of the record at offset a, P being the records *)
KeyIn(P, a) == SubSeq(P[a].data, 1, P[a].key_size)

(* what a call does to the free list, F being the list the allocator *)
(* searches: the list before the call and the record the call freed  *)
FreeListStep ==
    LET slot == Mod32(CallHash(config_hash, call'.key, Len(call'.key)), array_count)
        held == {a \in Range(Chain(slot)) : KeyOf(a) = call'.key}
        old == CHOOSE a \in held : TRUE
        size_required == SizeofKeyvalPair + Len(call'.key) + call'.value_size
        before == FreeChain
        after == FreeChain'
        F == IF held # {} THEN Append(before, old) ELSE before
        i == FirstFit(F, size_required)
    IN  /\ (op' = "remove" /\ ret' = 0) => after = Append(before, old)
        /\ (op' = "remove" /\ ret' # 0) => after = before
        /\ (op' = "insert" /\ path'.src = "inplace") => after = before
        /\ (op' = "insert" /\ path'.src # "inplace") =>
              IF i # 0
              THEN /\ ret' = 0 /\ path'.src = "freelist"
                   /\ after = SeqWithout(F, i)
                   /\ table'[slot].tail = F[i]
                   /\ KeyIn(pairs', F[i]) = call'.key
                   /\ bytes_used' = bytes_used
              ELSE /\ path'.src \in {"arena", "none"}
                   /\ after = F
                   /\ path'.src = "arena" =>
                         /\ bytes_used \notin DOMAIN pairs
                         /\ table'[slot].tail = bytes_used
                         /\ KeyIn(pairs', bytes_used) = call'.key
        /\ freelist'.head = (IF after = <<>> THEN NULL ELSE after[1])
        /\ freelist'.tail = (IF after = <<>> THEN NULL ELSE after[Len(after)])

(* C29: a removed record is appended at the tail of the free list; an     *)
(* allocation takes the first record from the head whose footprint is at  *)
(* least size_required, unlinks that record only, keeps the order of the  *)
(* remaining ones and fixes head and tail; the arena is used only when no *)
(* free record fits                                                       *)
C29_FirstFitFifo == [][FreeListStep]_vars

(* an allocation was served from the free list and the record now at the *)
(* head of the free list was too small for it                            *)
C29_Witness ==
    /\ op = "insert" /\ ret = 0 /\ path.src = "freelist"
    /\ Len(FreeChain) = 2
    /\ Footprint(FreeChain[1]) < SizeofKeyvalPair + Len(call.key) + call.value_size
    /\ \E a \in Linked : KeyOf(a) = call.key /\ FreeChain[1] < a /\ a < FreeChain[2]


(* ---- the capacity of a record ------------------------------------------- *)
(* the bytes carved from the arena for the record at offset a *)
CarvedSize(a) == CarvedEnd(a) - a

(* the records on the free list, or freed by this call, whose carved bytes *)
(* would hold the record the call stores                                    *)
FreedWithRoom ==
    LET slot == Mod32(CallHash(config_hash, call'.key, Len(call'.key)), array_count)
        held == {a \in Range(Chain(slot)) : KeyOf(a) = call'.key}
        size_required == SizeofKeyvalPair + Len(call'.key) + call'.value_size
    IN  {f \in Range(FreeChain) \cup held : CarvedSize(f) >= size_required}

(* C30: the footprint the allocator computes for a record never changes    *)
(* once the record is carved, so a freed record serves every request up to *)
(* the size it was carved with, also after it was shrunk in place or       *)
(* reused for a smaller key and value                                      *)
C30_FootprintNeverChanges ==
    [][/\ \A a \in DOMAIN pairs : Footprint(a)' = Footprint(a)
       /\ (op' = "insert" /\ path'.src # "inplace" /\ FreedWithRoom # {})
             => path'.src = "freelist"]_vars

(* ---- the order of a traversal ------------------------------------------- *)
(* the <<key, value>> pairs of the records of s, in the order of s *)
PairsOf(s) == [j \in 1..Len(s) |-> <<KeyOf(s[j]), ValueOf(s[j])>>]

(* the pairs stored in slot i and the slots after it: slot by slot, and *)
(* from head to tail within a slot                                      *)
RECURSIVE InOrderFrom(_)
InOrderFrom(i) ==
    IF i >= array_count THEN <<>> ELSE PairsOf(Chain(i)) \o InOrderFrom(i + 1)

(* the sequence s without the elements of the set gone *)
RECURSIVE Without(_, _)
Without(s, gone) ==
    IF s = <<>> THEN <<>>
    ELSE (IF s[1] \in gone THEN <<>> ELSE <<s[1]>>) \o Without(Tail(s), gone)

(* the list of slot i, P being the records and T the array of lists *)
ChainIn(P, T, i) == ChainFrom(P, T[i].head, Cardinality(DOMAIN P))

(* what a call does to the lists of the slots and what next_item gives *)
OrderStep ==
    LET slot == Mod32(CallHash(config_hash, call'.key, Len(call'.key)), array_count)
        held == {a \in Range(Chain(slot)) : KeyOf(a) = call'.key}
        rest == Without(Chain(slot), held)
    IN  /\ (op' = "insert" /\ path'.src = "inplace")
              => \A i \in 0..(array_count - 1) : Chain(i)' = Chain(i)
        /\ (op' = "insert" /\ path'.src # "inplace")
              => /\ \A i \in 0..(array_count - 1) \ {slot} : Chain(i)' = Chain(i)
                 /\ ChainIn(pairs', table', slot) = (IF ret' = 0
                                    THEN Append(rest, table'[slot].tail)
                                    ELSE rest)
                 /\ ret' = 0 => /\ table'[slot].tail \notin Range(rest)
                                /\ KeyIn(pairs', table'[slot].tail) = call'.key
        /\ op' = "remove"
              => /\ \A i \in 0..(array_count - 1) \ {slot} : Chain(i)' = Chain(i)
                 /\ ChainIn(pairs', table', slot) = rest
        /\ clean' => emitted' = SubSeq(InOrderFrom(0)', 1, Len(emitted'))

C32_ResetRestoresInitialCursor ==
    (op = "reset_cursor" /\ ret = 0)
        => /\ cursor_array_index = 0
           /\ cursor_item = NULL
           /\ cursor_items_traversed = 0
           /\ cursor_limit = 0


(* ---- C33 ---------------------------------------------------------------- *)
(* the list l, whose records from the head on are chain, is well-formed *)
WellFormed(l, chain) ==
    /\ (l.head = NULL) <=> (l.tail = NULL)
    /\ l.head # NULL => /\ chain # <<>>
                        /\ l.tail = chain[Len(chain)]
                        /\ pairs[l.tail].next = NULL

(* C33: the list of every slot and the free list are well-formed: head is *)
(* null exactly when tail is null, and the tail of a list that is not     *)
(* empty is the last record reachable from its head and has no successor  *)
C33_ListsWellFormed ==
    /\ \A i \in 0..(array_count - 1) : WellFormed(table[i], Chain(i))
    /\ WellFormed(freelist, FreeChain)

(* the record at the tail of a list of three has just been removed *)
C33_Witness ==
    /\ op = "remove" /\ ret = 0
    /\ Len(Chain(0)) = 2 /\ Len(FreeChain) = 1
    /\ Chain(0)[1] < Chain(0)[2] /\ Chain(0)[2] < FreeChain[1]


(* ---- C34 ---------------------------------------------------------------- *)
(* C34: every call runs to completion: the search of a list moves to the   *)
(* next record on every pass and returns, also on lists holding records    *)
(* whose key size differs from the size of the key searched; the search of *)
(* the free list returns; the loop of next_item returns after looking at   *)
(* no more than array_count slots                                          *)
C34_LoopsTerminate ==
    /\ (phase = "running") ~> (phase = "returned")
    /\ [](op = "hashtable_next_item" => call.passes <= array_count)

(* the search for a key of two bytes has passed two records with keys of *)
(* one byte and returned without finding it                              *)
C34_Witness ==
    /\ phase = "returned" /\ op = "_search_list_by_key" /\ ret = NULL
    /\ Len(call.key) = 2 /\ call.passes = 2
    /\ \A a \in Range(Chain(0)) : pairs[a].key_size = 1


(* ---- C35 ---------------------------------------------------------------- *)
(* C35: hashtable_retrieve, hashtable_has_key and hashtable_bytes_remaining *)
(* write nothing in the table, whatever they return: the lists, the free    *)
(* list, entry_count, array_slots_used, bytes_used and the cursor are as    *)
(* before the call, and so is what remains of a traversal                   *)
C35_QueriesReadOnly ==
    [][op' \in {"retrieve", "has_key", "bytes_remaining"}
          => /\ UNCHANGED <<heapvars, cursorvars, configvars>>
             /\ \A i \in 0..(array_count - 1) : Chain(i)' = Chain(i)
             /\ FreeChain' = FreeChain
             /\ emitted' = emitted /\ clean' = clean]_vars

(* a retrieve has found its key between the first and the second next_item *)
(* of a traversal of two records                                           *)
C35_Witness ==
    /\ op = "retrieve" /\ ret = 0
    /\ clean /\ Len(emitted) = 1
    /\ cursor_items_traversed = 1 /\ entry_count = 2


(* ---- C36 ---------------------------------------------------------------- *)
(* C36: when hashtable_clear has returned 0 the table is empty as after    *)
(* hashtable_create: no key is stored, entry_count and array_slots_used    *)
(* are 0, the free list is empty, bytes_used is 0, the cursor is reset;    *)
(* and entry_count is the number of linked records and array_slots_used    *)
(* the number of slots with a list, after the clear and after every        *)
(* insert and remove that follows                                          *)
C36_ClearEmptiesTable ==
    /\ (op = "clear" /\ ret = 0)
          => /\ Contents = {}
             /\ entry_count = 0 /\ array_slots_used = 0
             /\ freelist = [head |-> NULL, tail |-> NULL]
             /\ bytes_used = 0
             /\ cursor_array_index = 0 /\ cursor_item = NULL
             /\ cursor_items_traversed = 0 /\ cursor_limit = 0
    /\ entry_count = SumLen(0)
    /\ array_slots_used = Cardinality(SlotsWithHead)


(* ---- C37 ---------------------------------------------------------------- *)
(* C37: a next_item call given NULL for its value and value_size outputs   *)
(* returns: 0 with the key and its size given and the value outputs left   *)
(* alone, for a record with a value as for one without, or 1 at the end of *)
(* the traversal; it never stores through the null pointer                 *)
C37_NullValueOutputAccepted ==
    (op = "next_item" /\ "outputs" \in DOMAIN call)
        => /\ ret \in {0, 1}
           /\ ret = 0 => /\ out.key # UNTOUCHED /\ out.key_size # UNTOUCHED
                         /\ out.value = UNTOUCHED /\ out.value_size = UNTOUCHED


(* ---- C38 ---------------------------------------------------------------- *)
(* C38: when retrieve or next_item returns 0 and the caller gave a value   *)
(* output, the output holds a pointer into the record found or given, just *)
(* after its key, also when the record has a value_size of 0: it is not    *)
(* left with what the caller's variable held before                        *)
C38_ValueOutputWritten ==
    /\ (op = "retrieve" /\ ret = 0 /\ "out_value" \in DOMAIN call /\ call.out_value)
          => \E a \in Linked : /\ KeyOf(a) = call.key
                               /\ out.value = PairData(a) + pairs[a].key_size
    /\ (op = "next_item" /\ ret = 0)
          => \E a \in DOMAIN pairs : /\ out.key = PairData(a)
                                     /\ out.value = PairData(a) + pairs[a].key_size


(* ---- C39 ---------------------------------------------------------------- *)
(* C39: the size of the header plus key_size plus value_size is computed   *)
(* without wrapping round in size_t: an insert whose value_size is 2^16 or *)
(* more, which no free record and no space remaining in this table can     *)
(* hold, returns 1 and takes no bytes                                      *)
C39_SizeWithoutWrap ==
    (op = "insert" /\ "size_t_value_size" \in DOMAIN call
                   /\ LimbsAbove(call.size_t_value_size, 65535))
        => /\ ret = 1
           /\ path.src = "none"


====
